---- MODULE Spec2Model ----
(***************************************************************************)
(* Adaptive windowed anomaly detection of the IIoT-MQTT analytics          *)
(* services: the +-3 standard deviation detector of                        *)
(* electrical_anomaly_analytics/src/helper.py and the z-score detector of  *)
(* vibration_anomaly_detect_z_score/src/script.py.                         *)
(*                                                                         *)
(* Numbers.  The detectors compute with Python floats.  The model computes *)
(* with exact real numbers of the form  rat + sgn * sqrt(sq)  (a rational  *)
(* plus or minus the square root of a rational), which is closed under     *)
(* everything the detectors do with integer inputs: a mean is a rational,  *)
(* a sample standard deviation is the square root of a rational, a bound   *)
(* is a rational plus or minus three times such a root, and round(x, 3)    *)
(* is a rational again.  The last-bit rounding of binary floating point    *)
(* is not modelled.                                                        *)
(***************************************************************************)
EXTENDS Integers, Sequences, FiniteSets, TLC

VARIABLES det, fed, last,
          env, electrical_analytics, analytics, influx, handled,
          call

\* the state of one detector object and of the calls made on it
detector_vars == <<det, fed, last>>

\* the state of the electrical analytics script
electrical_vars == <<env, electrical_analytics, analytics, influx, handled>>

vars == <<det, fed, last, env, electrical_analytics, analytics, influx, handled, call>>

(***************************************************************************)
(* Bounds of the model.                                                    *)
(***************************************************************************)
MaxModelSize == 3
MaxListSize == 3
MaxCalls == 4
MaxEvaluations == 6

(***************************************************************************)
(* Inputs the model draws from.                                            *)
(***************************************************************************)
ModelSizes == 1..MaxModelSize
AnomalyListSizes == 1..MaxListSize
Values3StdDev == {10, 11, 20}
ValuesZscore == {-1, 0, 1}
Limits == {0, 5}
ThreshStdDevLimits == {1, 5}
ZScoreThresholds == {0, 1, 2}

(***************************************************************************)
(* Integer helpers.                                                        *)
(***************************************************************************)
IAbs(n) == IF n < 0 THEN -n ELSE n

ISign(n) == IF n < 0 THEN -1 ELSE IF n = 0 THEN 0 ELSE 1

RECURSIVE GCD(_, _)
GCD(a, b) == IF b = 0 THEN a ELSE GCD(b, a % b)

RECURSIVE ISqrtSearch(_, _, _)
ISqrtSearch(n, lo, hi) ==
    IF lo >= hi THEN lo
    ELSE LET mid == (lo + hi + 1) \div 2
         IN IF mid <= n \div mid THEN ISqrtSearch(n, mid, hi)
                                 ELSE ISqrtSearch(n, lo, mid - 1)

\* floor of the square root of a natural number
ISqrt(n) == IF n <= 0 THEN 0 ELSE ISqrtSearch(n, 1, IF n < 46340 THEN n ELSE 46340)

IsSquare(n) == n >= 0 /\ ISqrt(n) * ISqrt(n) = n

\* n / d rounded to the nearest integer, ties to the even neighbour (d > 0)
RoundHalfEven(n, d) ==
    LET a == IAbs(n)
        q == a \div d
        r == a % d
        m == IF 2 * r < d THEN q
             ELSE IF 2 * r > d THEN q + 1
             ELSE IF q % 2 = 0 THEN q ELSE q + 1
    IN ISign(n) * m

(***************************************************************************)
(* Rationals in lowest terms with a positive denominator, so that equal    *)
(* rationals are equal records.                                            *)
(***************************************************************************)
Rat(n, d) ==
    LET g == GCD(IAbs(n), IAbs(d))
        s == IF d < 0 THEN -1 ELSE 1
    IN [num |-> s * (n \div g), den |-> s * (d \div g)]

RatInt(n) == [num |-> n, den |-> 1]

RatAdd(p, q) == Rat(p.num * q.den + q.num * p.den, p.den * q.den)

RatNeg(p) == [num |-> -p.num, den |-> p.den]

RatSub(p, q) == RatAdd(p, RatNeg(q))

RatMul(p, q) == Rat(p.num * q.num, p.den * q.den)

RatAbs(p) == [num |-> IAbs(p.num), den |-> p.den]

\* Variant: the comparison is not strict.
RatLt_NotStrict(p, q) == p.num * q.den <= q.num * p.den

RatLt(p, q) == p.num * q.den < q.num * p.den

RatLe(p, q) == p.num * q.den <= q.num * p.den

\* round(x, 3) of a rational x
Round3(p) == Rat(RoundHalfEven(1000 * p.num, p.den), 1000)

(***************************************************************************)
(* Reals  rat + sgn * sqrt(sq).  In normal form sq is not the square of a  *)
(* rational when sgn # 0 and is zero when sgn = 0, so that equal reals     *)
(* are equal records.                                                      *)
(***************************************************************************)
Real(q) == [rat |-> q, sgn |-> 0, sq |-> RatInt(0)]

\* rat + sgn * sqrt(sq) in normal form
RealOf(q, s, w) ==
    IF s = 0 \/ w.num = 0 THEN Real(q)
    ELSE IF IsSquare(w.num) /\ IsSquare(w.den)
         THEN Real(RatAdd(q, Rat(s * ISqrt(w.num), ISqrt(w.den))))
         ELSE [rat |-> q, sgn |-> s, sq |-> w]

\* the square root of a rational w >= 0
RealSqrt(w) == RealOf(RatInt(0), 1, w)

RealNeg(x) == [rat |-> RatNeg(x.rat), sgn |-> -x.sgn, sq |-> x.sq]

\* k * x for an integer k
RealScale(k, x) ==
    RealOf(RatMul(RatInt(k), x.rat), ISign(k) * x.sgn, RatMul(RatInt(k * k), x.sq))

\* x + q for a rational q
RealAddRat(x, q) == [rat |-> RatAdd(x.rat, q), sgn |-> x.sgn, sq |-> x.sq]

\* x + y where at most one of x, y has an irrational part
RealAdd(x, y) == IF y.sgn = 0 THEN RealAddRat(x, y.rat) ELSE RealAddRat(y, x.rat)

RealSub(x, y) == RealAdd(x, RealNeg(y))

\* the sign of x: -1, 0 or 1
RealSign(x) ==
    IF x.sgn = 0 THEN ISign(x.rat.num)
    ELSE IF ISign(x.rat.num) = x.sgn \/ x.rat.num = 0 THEN x.sgn
    ELSE IF RatLt(RatMul(x.rat, x.rat), x.sq) THEN x.sgn ELSE -x.sgn

RealAbs(x) == IF RealSign(x) < 0 THEN RealNeg(x) ELSE x

RealLt(x, y) == RealSign(RealSub(y, x)) > 0

\* Variant: the comparison is strict.
RealLe_Strict(x, y) == RealSign(RealSub(y, x)) > 0

RealLe(x, y) == RealSign(RealSub(y, x)) >= 0

\* round(a / s, 3) for a rational a with at most three decimals and a real
\* s > 0 that is a rational or the square root of one
RoundQuot3(a, s) ==
    IF s.sgn = 0
    THEN Round3(Rat(a.num * s.rat.den, a.den * s.rat.num))
    ELSE LET A == (1000 * a.num) \div a.den
             n == (4 * A * A * s.sq.den) \div s.sq.num
         IN Rat(ISign(A) * ((1 + ISqrt(n)) \div 2), 1000)

(***************************************************************************)
(* The statistics of a window of integers.                                 *)
(***************************************************************************)
RECURSIVE Sum(_)
Sum(s) == IF s = <<>> THEN 0 ELSE Head(s) + Sum(Tail(s))

RECURSIVE SumSq(_)
SumSq(s) == IF s = <<>> THEN 0 ELSE Head(s) * Head(s) + SumSq(Tail(s))

\* statistics.mean(data), data not empty
mean(data) == Rat(Sum(data), Len(data))

\* statistics.stdev raises StatisticsError on fewer than two data points
stdev_raises(data) == Len(data) < 2

\* statistics.stdev(data): the sample standard deviation (n - 1 denominator)
stdev(data) ==
    LET n == Len(data)
    IN RealSqrt(Rat(n * SumSq(data) - Sum(data) * Sum(data), n * (n - 1)))

\* Variant: pop() without an index removes the newest entry, not the oldest.
PopAppend_PopsNewest(list, x) == Append(SubSeq(list, 1, Len(list) - 1), x)

\* Variant: the pop(0) is missing.
PopAppend_NoPop(list, x) == Append(list, x)

\* Variant: the new entry goes to the front and the newest entry is dropped.
PopAppend_InsertsFront(list, x) == <<x>> \o SubSeq(list, 1, Len(list) - 1)

\* list.pop(0) followed by list.append(x)
\* Variant: the oldest entry is evicted and nothing is appended.
PopAppend_OnlyPops(list, x) == Tail(list)

PopAppend(list, x) == Append(Tail(list), x)

(***************************************************************************)
(* class AnomalyDetection3StdDev                                           *)
(***************************************************************************)
AnomalyDetection3StdDev_init(model_size, anomaly_list_size, thresh_std_dev_limit) ==
    [cls |-> "AnomalyDetection3StdDev",
     model_data |-> <<>>,
     model_size |-> model_size,
     anomaly_list |-> <<>>,
     anomaly_list_size |-> anomaly_list_size,
     anomaly_ratio |-> RatInt(0),
     anomaly |-> 0,
     model_avg |-> RatInt(0),
     model_std_dev |-> Real(RatInt(0)),
     thresh_std_dev_limit |-> thresh_std_dev_limit,
     u_thresh |-> Real(RatInt(0)),
     l_thresh |-> Real(RatInt(0))]

\* Variant: the flag list is not cleared.
StdDev_reset_algorithm_KeepsFlags(self) ==
    [self EXCEPT !.model_data = <<>>,
                 !.anomaly_ratio = RatInt(0),
                 !.anomaly = 0,
                 !.model_avg = RatInt(0),
                 !.model_std_dev = Real(RatInt(0))]

StdDev_reset_algorithm(self) ==
    [self EXCEPT !.model_data = <<>>,
                 !.anomaly_list = <<>>,
                 !.anomaly_ratio = RatInt(0),
                 !.anomaly = 0,
                 !.model_avg = RatInt(0),
                 !.model_std_dev = Real(RatInt(0))]

StdDev_is_model_complete(self) == Len(self.model_data) = self.model_size

\* Variant: the flag is recorded whether the model is complete or not.
StdDev_calculate_anomaly_ratio_NoCompletenessGuard(self) ==
    IF Len(self.anomaly_list) < self.anomaly_list_size
    THEN [self EXCEPT !.anomaly_list = Append(@, self.anomaly)]
    ELSE LET list == PopAppend(self.anomaly_list, self.anomaly)
         IN [self EXCEPT !.anomaly_list = list,
                         !.anomaly_ratio = Round3(Rat(Sum(list), self.anomaly_list_size))]

\* Variant: the ratio is also computed by the record that fills the list.
StdDev_calculate_anomaly_ratio_RatioOnFill(self) ==
    IF ~StdDev_is_model_complete(self) THEN self
    ELSE LET list == IF Len(self.anomaly_list) < self.anomaly_list_size
                     THEN Append(self.anomaly_list, self.anomaly)
                     ELSE PopAppend(self.anomaly_list, self.anomaly)
         IN IF Len(list) < self.anomaly_list_size
            THEN [self EXCEPT !.anomaly_list = list]
            ELSE [self EXCEPT !.anomaly_list = list,
                              !.anomaly_ratio = Round3(Rat(Sum(list), self.anomaly_list_size))]

StdDev_calculate_anomaly_ratio(self) ==
    IF ~StdDev_is_model_complete(self) THEN self
    ELSE IF Len(self.anomaly_list) < self.anomaly_list_size
    THEN [self EXCEPT !.anomaly_list = Append(@, self.anomaly)]
    ELSE LET list == PopAppend(self.anomaly_list, self.anomaly)
         IN [self EXCEPT !.anomaly_list = list,
                         !.anomaly_ratio = Round3(Rat(Sum(list), self.anomaly_list_size))]

\* the statements of the try block up to the one that raises
StdDev_check_raises(self, value, limit) ==
    StdDev_is_model_complete(self) /\ stdev_raises(self.model_data)

\* Variant: the mean is also computed while the model is still filling.
StdDev_check_if_anomaly_MeanWhileFilling(self, value, limit) ==
    IF StdDev_is_model_complete(self)
    THEN IF stdev_raises(self.model_data)
         THEN [self EXCEPT !.model_avg = mean(self.model_data)]
         ELSE LET avg == mean(self.model_data)
                  std == stdev(self.model_data)
                  floor == RealLt(std, Real(RatInt(limit))) /\ limit > 0
                  u == IF floor
                       THEN Real(RatAdd(avg, RatInt(self.thresh_std_dev_limit)))
                       ELSE RealAddRat(RealScale(3, std), avg)
                  l == IF floor
                       THEN Real(RatSub(avg, RatInt(self.thresh_std_dev_limit)))
                       ELSE RealAddRat(RealNeg(RealScale(3, std)), avg)
                  s1 == [self EXCEPT !.model_avg = avg,
                                     !.model_std_dev = std,
                                     !.u_thresh = u,
                                     !.l_thresh = l]
              IN IF RealLe(l, Real(RatInt(value))) /\ RealLe(Real(RatInt(value)), u)
                 THEN [s1 EXCEPT !.model_data = PopAppend(@, value), !.anomaly = 0]
                 ELSE [s1 EXCEPT !.anomaly = 1]
    ELSE [self EXCEPT !.model_data = Append(@, value),
                      !.model_avg = mean(Append(self.model_data, value))]

\* Variant: a flagged value is taken into the window as well.
StdDev_check_if_anomaly_AppendsAnomalous(self, value, limit) ==
    IF StdDev_is_model_complete(self)
    THEN IF stdev_raises(self.model_data)
         THEN \* model_avg is assigned before stdev raises; the handler logs
              [self EXCEPT !.model_avg = mean(self.model_data)]
         ELSE LET avg == mean(self.model_data)
                  std == stdev(self.model_data)
                  floor == RealLt(std, Real(RatInt(limit))) /\ limit > 0
                  u == IF floor
                       THEN Real(RatAdd(avg, RatInt(self.thresh_std_dev_limit)))
                       ELSE RealAddRat(RealScale(3, std), avg)
                  l == IF floor
                       THEN Real(RatSub(avg, RatInt(self.thresh_std_dev_limit)))
                       ELSE RealAddRat(RealNeg(RealScale(3, std)), avg)
                  s1 == [self EXCEPT !.model_avg = avg,
                                     !.model_std_dev = std,
                                     !.u_thresh = u,
                                     !.l_thresh = l]
              IN IF RealLe(l, Real(RatInt(value))) /\ RealLe(Real(RatInt(value)), u)
                 THEN [s1 EXCEPT !.model_data = PopAppend(@, value), !.anomaly = 0]
                 ELSE [s1 EXCEPT !.model_data = PopAppend(@, value), !.anomaly = 1]
    ELSE [self EXCEPT !.model_data = Append(@, value)]

StdDev_check_if_anomaly(self, value, limit) ==
    IF StdDev_is_model_complete(self)
    THEN IF stdev_raises(self.model_data)
         THEN \* model_avg is assigned before stdev raises; the handler logs
              [self EXCEPT !.model_avg = mean(self.model_data)]
         ELSE LET avg == mean(self.model_data)
                  std == stdev(self.model_data)
                  floor == RealLt(std, Real(RatInt(limit))) /\ limit > 0
                  u == IF floor
                       THEN Real(RatAdd(avg, RatInt(self.thresh_std_dev_limit)))
                       ELSE RealAddRat(RealScale(3, std), avg)
                  l == IF floor
                       THEN Real(RatSub(avg, RatInt(self.thresh_std_dev_limit)))
                       ELSE RealAddRat(RealNeg(RealScale(3, std)), avg)
                  s1 == [self EXCEPT !.model_avg = avg,
                                     !.model_std_dev = std,
                                     !.u_thresh = u,
                                     !.l_thresh = l]
              IN IF RealLe(l, Real(RatInt(value))) /\ RealLe(Real(RatInt(value)), u)
                 THEN [s1 EXCEPT !.model_data = PopAppend(@, value), !.anomaly = 0]
                 ELSE [s1 EXCEPT !.anomaly = 1]
    ELSE [self EXCEPT !.model_data = Append(@, value)]

(***************************************************************************)
(* class AnomalyDetectionZscore                                            *)
(***************************************************************************)
\* the threshold substituted for a configured 0
DefaultZScoreThresh == 2

\* the standard deviation substituted for 0: 0.001
ZeroStdDevSubstitute == Real(Rat(1, 1000))

AnomalyDetectionZscore_init(model_size, anomaly_list_size) ==
    [cls |-> "AnomalyDetectionZscore",
     model_data |-> <<>>,
     model_size |-> model_size,
     anomaly_list |-> <<>>,
     anomaly_list_size |-> anomaly_list_size,
     anomaly_ratio |-> RatInt(0),
     anomaly |-> 0,
     model_avg |-> RatInt(0),
     model_std_dev |-> Real(RatInt(0)),
     z_score |-> RatInt(0),
     z_score_thresh |-> RatInt(0)]

\* Variant: the setter stores whatever it is given, 0 included.
Zscore_set_z_score_thresh_StoresZero(self, z_score_threshold) ==
    [self EXCEPT !.z_score_thresh = z_score_threshold]

\* the setter of the property z_score_thresh
Zscore_set_z_score_thresh(self, z_score_threshold) ==
    IF z_score_threshold = RatInt(0)
    THEN [self EXCEPT !.z_score_thresh = RatInt(DefaultZScoreThresh)]
    ELSE [self EXCEPT !.z_score_thresh = z_score_threshold]

\* Variant: the anomaly flag is not cleared.
Zscore_reset_algorithm_KeepsAnomaly(self) ==
    [self EXCEPT !.model_data = <<>>,
                 !.anomaly_list = <<>>,
                 !.anomaly_ratio = RatInt(0),
                 !.model_avg = RatInt(0),
                 !.model_std_dev = Real(RatInt(0)),
                 !.z_score = RatInt(0)]

Zscore_reset_algorithm(self) ==
    [self EXCEPT !.model_data = <<>>,
                 !.anomaly_list = <<>>,
                 !.anomaly_ratio = RatInt(0),
                 !.anomaly = 0,
                 !.model_avg = RatInt(0),
                 !.model_std_dev = Real(RatInt(0)),
                 !.z_score = RatInt(0)]

\* Variant: the model counts as complete one entry early.
Zscore_is_model_complete_OneEarly(self) == Len(self.model_data) >= self.model_size - 1

Zscore_is_model_complete(self) == Len(self.model_data) = self.model_size

\* Variant: the ratio is also computed by the record that fills the list.
Zscore_calculate_anomaly_ratio_RatioOnFill(self) ==
    IF Zscore_is_model_complete(self)
    THEN LET list == IF Len(self.anomaly_list) < self.anomaly_list_size
                     THEN Append(self.anomaly_list, self.anomaly)
                     ELSE PopAppend(self.anomaly_list, self.anomaly)
         IN IF Len(list) < self.anomaly_list_size
            THEN [self EXCEPT !.anomaly_list = list]
            ELSE [self EXCEPT !.anomaly_list = list,
                              !.anomaly_ratio = Round3(Rat(Sum(list), self.anomaly_list_size))]
    ELSE self

\* Variant: the ratio is computed by every record, the list full or not.
Zscore_calculate_anomaly_ratio_RatioEveryRecord(self) ==
    IF Zscore_is_model_complete(self)
    THEN LET list == IF Len(self.anomaly_list) < self.anomaly_list_size
                     THEN Append(self.anomaly_list, self.anomaly)
                     ELSE PopAppend(self.anomaly_list, self.anomaly)
         IN [self EXCEPT !.anomaly_list = list,
                         !.anomaly_ratio = Round3(Rat(Sum(list), self.anomaly_list_size))]
    ELSE self

Zscore_calculate_anomaly_ratio(self) ==
    IF Zscore_is_model_complete(self)
    THEN IF Len(self.anomaly_list) < self.anomaly_list_size
         THEN [self EXCEPT !.anomaly_list = Append(@, self.anomaly)]
         ELSE LET list == PopAppend(self.anomaly_list, self.anomaly)
              IN [self EXCEPT !.anomaly_list = list,
                              !.anomaly_ratio = Round3(Rat(Sum(list), self.anomaly_list_size))]
    ELSE self

\* Variant: the value is used with its sign.
Magnitude_Signed(value) == value

\* abs(value)
Magnitude(value) == IAbs(value)

\* Variant: an anomalous value is appended to the window as well.
Zscore_check_if_anomaly_AppendsAnomalous(self, value) ==
    IF Zscore_is_model_complete(self) /\ ~stdev_raises(self.model_data)
    THEN LET avg == Round3(RatAbs(mean(self.model_data)))
             std0 == RealAbs(stdev(self.model_data))
             std == IF std0 = Real(RatInt(0)) THEN ZeroStdDevSubstitute ELSE std0
             z == RoundQuot3(RatSub(RatInt(Magnitude(value)), avg), std)
         IN [self EXCEPT !.model_avg = avg,
                         !.model_std_dev = std,
                         !.z_score = z,
                         !.model_data = PopAppend(@, value),
                         !.anomaly = IF RatLt(self.z_score_thresh, RatAbs(z)) THEN 1 ELSE 0]
    ELSE IF Zscore_is_model_complete(self)
    THEN [self EXCEPT !.model_avg = Round3(RatAbs(mean(self.model_data)))]
    ELSE [self EXCEPT !.model_data = Append(@, value)]

\* Variant: a standard deviation of 0 is not replaced, the division raises
\* ZeroDivisionError and the handler logs it.
Zscore_check_if_anomaly_NoSubstitute(self, value) ==
    IF Zscore_is_model_complete(self) /\ ~stdev_raises(self.model_data)
    THEN LET avg == Round3(RatAbs(mean(self.model_data)))
             std == RealAbs(stdev(self.model_data))
             s0 == [self EXCEPT !.model_avg = avg, !.model_std_dev = std]
         IN IF std = Real(RatInt(0)) THEN s0
            ELSE LET z == RoundQuot3(RatSub(RatInt(Magnitude(value)), avg), std)
                     s1 == [s0 EXCEPT !.z_score = z]
                 IN IF RatLt(self.z_score_thresh, RatAbs(z))
                    THEN [s1 EXCEPT !.anomaly = 1]
                    ELSE [s1 EXCEPT !.model_data = PopAppend(@, value), !.anomaly = 0]
    ELSE IF Zscore_is_model_complete(self)
    THEN [self EXCEPT !.model_avg = Round3(RatAbs(mean(self.model_data)))]
    ELSE [self EXCEPT !.model_data = Append(@, value)]

\* Variant: a value taken while the model fills raises the anomaly flag.
Zscore_check_if_anomaly_FlagsWhileFilling(self, value) ==
    IF Zscore_is_model_complete(self) /\ ~stdev_raises(self.model_data)
    THEN LET avg == Round3(RatAbs(mean(self.model_data)))
             std0 == RealAbs(stdev(self.model_data))
             std == IF std0 = Real(RatInt(0)) THEN ZeroStdDevSubstitute ELSE std0
             z == RoundQuot3(RatSub(RatInt(Magnitude(value)), avg), std)
             s1 == [self EXCEPT !.model_avg = avg,
                                !.model_std_dev = std,
                                !.z_score = z]
         IN IF RatLt(self.z_score_thresh, RatAbs(z))
            THEN [s1 EXCEPT !.anomaly = 1]
            ELSE [s1 EXCEPT !.model_data = PopAppend(@, value), !.anomaly = 0]
    ELSE IF Zscore_is_model_complete(self)
    THEN [self EXCEPT !.model_avg = Round3(RatAbs(mean(self.model_data)))]
    ELSE [self EXCEPT !.model_data = Append(@, value), !.anomaly = 1]

\* the statements of the try block up to the one that raises
Zscore_check_raises(self, value) ==
    Zscore_is_model_complete(self) /\ stdev_raises(self.model_data)

Zscore_check_if_anomaly(self, value) ==
    IF Zscore_is_model_complete(self)
    THEN IF stdev_raises(self.model_data)
         THEN \* model_avg is assigned before stdev raises; the handler logs
              [self EXCEPT !.model_avg = Round3(RatAbs(mean(self.model_data)))]
         ELSE LET avg == Round3(RatAbs(mean(self.model_data)))
                  std0 == RealAbs(stdev(self.model_data))
                  std == IF std0 = Real(RatInt(0)) THEN ZeroStdDevSubstitute ELSE std0
                  z == RoundQuot3(RatSub(RatInt(Magnitude(value)), avg), std)
                  s1 == [self EXCEPT !.model_avg = avg,
                                     !.model_std_dev = std,
                                     !.z_score = z]
              IN IF RatLt(self.z_score_thresh, RatAbs(z))
                 THEN [s1 EXCEPT !.anomaly = 1]
                 ELSE [s1 EXCEPT !.model_data = PopAppend(@, value), !.anomaly = 0]
    ELSE [self EXCEPT !.model_data = Append(@, value)]

(***************************************************************************)
(* One detector object of either class, and the calls made on it.          *)
(*   det   the detector                                                    *)
(*   fed   the check_if_anomaly calls since construction or the last       *)
(*         reset: the value passed, whether the model was complete         *)
(*         before the call, whether the call's try block raised, and the   *)
(*         anomaly flag after the call                                     *)
(*   last  the last call: its name and the argument that fed does not     *)
(*         hold (the limit of a check, the threshold of an assignment)     *)
(***************************************************************************)
IsStdDev(d) == d.cls = "AnomalyDetection3StdDev"

IsZscore(d) == d.cls = "AnomalyDetectionZscore"

is_model_complete(d) ==
    IF IsStdDev(d) THEN StdDev_is_model_complete(d) ELSE Zscore_is_model_complete(d)

NoCall == [op |-> "init", arg |-> 0]

\* the script's state in the specifications that are about one detector only
ElectricalIdle ==
    /\ env = <<>>
    /\ electrical_analytics = <<>>
    /\ analytics = <<>>
    /\ influx = <<>>
    /\ handled = <<>>

Init ==
    /\ \/ \E n \in ModelSizes, m \in AnomalyListSizes, t \in ThreshStdDevLimits :
              det = AnomalyDetection3StdDev_init(n, m, t)
       \/ \E n \in ModelSizes, m \in AnomalyListSizes :
              det = AnomalyDetectionZscore_init(n, m)
    /\ fed = <<>>
    /\ last = NoCall
    /\ ElectricalIdle
    /\ call = NoCall

FedEntry(value, before, raised, after) ==
    [value |-> value,
     complete |-> is_model_complete(before),
     raised |-> raised,
     anomaly |-> after.anomaly]

CheckIfAnomaly3StdDev ==
    \E value \in Values3StdDev, limit \in Limits :
        /\ IsStdDev(det)
        /\ Len(fed) < MaxCalls
        /\ det' = StdDev_check_if_anomaly(det, value, limit)
        /\ fed' = Append(fed, FedEntry(value, det, StdDev_check_raises(det, value, limit), det'))
        /\ last' = [op |-> "check_if_anomaly", arg |-> limit]
        /\ UNCHANGED <<electrical_vars, call>>

CheckIfAnomalyZscore ==
    \E value \in ValuesZscore :
        /\ IsZscore(det)
        /\ Len(fed) < MaxCalls
        /\ det' = Zscore_check_if_anomaly(det, value)
        /\ fed' = Append(fed, FedEntry(value, det, Zscore_check_raises(det, value), det'))
        /\ last' = [op |-> "check_if_anomaly", arg |-> 0]
        /\ UNCHANGED <<electrical_vars, call>>

CalculateAnomalyRatio ==
    /\ det' = IF IsStdDev(det) THEN StdDev_calculate_anomaly_ratio(det)
                               ELSE Zscore_calculate_anomaly_ratio(det)
    /\ last' = [op |-> "calculate_anomaly_ratio", arg |-> 0]
    /\ UNCHANGED fed
    /\ UNCHANGED <<electrical_vars, call>>

ResetAlgorithm ==
    /\ det' = IF IsStdDev(det) THEN StdDev_reset_algorithm(det)
                               ELSE Zscore_reset_algorithm(det)
    /\ fed' = <<>>
    /\ last' = [op |-> "reset_algorithm", arg |-> 0]
    /\ UNCHANGED <<electrical_vars, call>>

SetZScoreThresh ==
    \E t \in ZScoreThresholds :
        /\ IsZscore(det)
        /\ det' = Zscore_set_z_score_thresh(det, RatInt(t))
        /\ last' = [op |-> "z_score_thresh", arg |-> t]
        /\ UNCHANGED fed
        /\ UNCHANGED <<electrical_vars, call>>

Next ==
    \/ CheckIfAnomaly3StdDev
    \/ CheckIfAnomalyZscore
    \/ CalculateAnomalyRatio
    \/ ResetAlgorithm
    \/ SetZScoreThresh

Spec == Init /\ [][Next]_vars

(***************************************************************************)
(* The detector as the scripts drive it: one z-score detector, and for     *)
(* every message the threshold assignment, check_if_anomaly and            *)
(* calculate_anomaly_ratio in that order (on_message of the vibration      *)
(* script, calculate_integr_analytics of the electrical script).  The      *)
(* scripts never call reset_algorithm.                                     *)
(***************************************************************************)
InitScript ==
    /\ \E n \in ModelSizes, m \in AnomalyListSizes :
           det = AnomalyDetectionZscore_init(n, m)
    /\ fed = <<>>
    /\ last = NoCall
    /\ ElectricalIdle
    /\ call = NoCall

Evaluate ==
    \E z_threshold \in ZScoreThresholds, value \in ValuesZscore :
        /\ Len(fed) < MaxEvaluations
        /\ LET assigned == Zscore_set_z_score_thresh(det, RatInt(z_threshold))
               checked == Zscore_check_if_anomaly(assigned, value)
           IN /\ det' = Zscore_calculate_anomaly_ratio(checked)
              /\ fed' = Append(fed, FedEntry(value, assigned,
                                             Zscore_check_raises(assigned, value), checked))
        /\ last' = [op |-> "evaluate", arg |-> z_threshold]
        /\ UNCHANGED <<electrical_vars, call>>

NextScript == Evaluate

SpecScript == InitScript /\ [][NextScript]_vars

(***************************************************************************)
(* electrical_anomaly_analytics_zscore/src/script.py: the handler of the   *)
(* electrical device messages, the sample buffer it fills                  *)
(* (class ElectricalAnalytics of helper.py) and the six z-score detectors  *)
(* it evaluates.  The detectors are objects of the class                   *)
(* AnomalyDetectionZscore modelled above.                                  *)
(*   env                   the settings read at start-up                   *)
(*   electrical_analytics  the ElectricalAnalytics object                  *)
(*   analytics             the six detectors, by the name of the module    *)
(*                         variable that holds each                        *)
(*   influx                the points written to InfluxDB, in order        *)
(*   handled               the last message handled: how many messages     *)
(*                         were handled so far, the message, how many      *)
(*                         samples were buffered when it arrived, whether  *)
(*                         the handler raised or logged an error, the      *)
(*                         detector methods it called in order, whether it *)
(*                         attempted a write, the values given to          *)
(*                         check_if_anomaly of each detector so far, and   *)
(*                         the samples delivered since the last clearing   *)
(***************************************************************************)
MaxMessages == 6

ModelWindowSizes == {2}
AnomalyListSizesElectrical == {1}
ZScoreThresholdsElectrical == {2}
CurrentPeakHeights == {1, 2}
CurrentPeakNumbers == {1, 2}

IntegrDetectors ==
    <<"el_current_integr_ph1_analytics",
      "el_current_integr_ph2_analytics",
      "el_current_integr_ph3_analytics">>

InrushDetectors ==
    <<"el_inrush_current_ph1_analytics",
      "el_inrush_current_ph2_analytics",
      "el_inrush_current_ph3_analytics">>

DetectorNames ==
    {IntegrDetectors[i] : i \in 1..3} \cup {InrushDetectors[i] : i \in 1..3}

\* numpy.append(array, values): values is a scalar or a list, here always
\* given as the sequence of its numbers
np_append(array, values) == array \o values

ElectricalAnalytics_init ==
    [el_current_ph1_samples |-> <<>>,
     el_current_ph2_samples |-> <<>>,
     el_current_ph3_samples |-> <<>>,
     el_current_integr_ph1_total |-> 0,
     el_current_integr_ph2_total |-> 0,
     el_current_integr_ph3_total |-> 0]

append_samples_Replaces(self, phase1, phase2, phase3) ==
    [self EXCEPT !.el_current_ph1_samples = phase1,
                 !.el_current_ph2_samples = phase2,
                 !.el_current_ph3_samples = phase3]

append_samples(self, phase1, phase2, phase3) ==
    [self EXCEPT !.el_current_ph1_samples = np_append(@, phase1),
                 !.el_current_ph2_samples = np_append(@, phase2),
                 !.el_current_ph3_samples = np_append(@, phase3)]

clear_samples_KeepsPh3(self) ==
    [self EXCEPT !.el_current_ph1_samples = <<>>,
                 !.el_current_ph2_samples = <<>>]

clear_samples(self) ==
    [self EXCEPT !.el_current_ph1_samples = <<>>,
                 !.el_current_ph2_samples = <<>>,
                 !.el_current_ph3_samples = <<>>]

samples_number_ph1(self) == Len(self.el_current_ph1_samples)

samples_number_ph2(self) == Len(self.el_current_ph2_samples)

samples_number_ph3(self) == Len(self.el_current_ph3_samples)

\* x[k] of Python, k >= 0
At(x, k) == x[k + 1]

\* the end of the plateau that starts at position i (positions from 1)
RECURSIVE PlateauEnd(_, _, _)
PlateauEnd(x, i, ahead) ==
    IF ahead < Len(x) /\ x[ahead] = x[i] THEN PlateauEnd(x, i, ahead + 1) ELSE ahead

\* the local maxima of x from position i on (positions from 1): a sample,
\* or the middle of a plateau, that is higher than both its neighbours;
\* the first and the last sample are never maxima
RECURSIVE local_maxima(_, _)
local_maxima(x, i) ==
    IF i >= Len(x) THEN <<>>
    ELSE IF x[i - 1] < x[i]
         THEN LET ahead == PlateauEnd(x, i, i + 1)
              IN IF x[ahead] < x[i]
                 THEN <<(i + ahead - 1) \div 2>> \o local_maxima(x, ahead + 1)
                 ELSE local_maxima(x, i + 1)
         ELSE local_maxima(x, i + 1)

RECURSIVE AtLeast(_, _, _)
AtLeast(x, positions, height) ==
    IF positions = <<>> THEN <<>>
    ELSE (IF x[Head(positions)] >= height THEN <<Head(positions) - 1>> ELSE <<>>)
         \o AtLeast(x, Tail(positions), height)

\* scipy.signal.find_peaks(x, height=height)[0]: the indices (from 0) of
\* the local maxima of x that are at least height, in ascending order
find_peaks(x, height) == AtLeast(x, local_maxima(x, 2), height)

\* the three statements every evaluation of a detector consists of
EvaluateDetector_NoRecord(d, z_threshold, value) ==
    Zscore_check_if_anomaly(Zscore_set_z_score_thresh(d, RatInt(z_threshold)), value)

EvaluateDetector(d, z_threshold, value) ==
    Zscore_calculate_anomaly_ratio(
        Zscore_check_if_anomaly(Zscore_set_z_score_thresh(d, RatInt(z_threshold)), value))

\* one call of a detector method, as the handler makes it
DetectorCall(name, method, arg) == [detector |-> name, method |-> method, arg |-> arg]

\* the calls of one evaluation of a detector
EvaluationCalls(name, z_threshold, value) ==
    <<DetectorCall(name, "z_score_thresh", z_threshold),
      DetectorCall(name, "check_if_anomaly", value),
      DetectorCall(name, "calculate_anomaly_ratio", 0)>>

calculate_integr_analytics(el_current_ph1_samples, el_current_ph2_samples, el_current_ph3_samples, z_threshold_integr, detectors) ==
    LET totals == <<Sum(el_current_ph1_samples),
                    Sum(el_current_ph2_samples),
                    Sum(el_current_ph3_samples)>>
    IN [analytics |->
            [n \in DetectorNames |->
                IF \E i \in 1..3 : n = IntegrDetectors[i]
                THEN LET i == CHOOSE i \in 1..3 : n = IntegrDetectors[i]
                     IN EvaluateDetector(detectors[n], z_threshold_integr, totals[i])
                ELSE detectors[n]],
        totals |-> totals,
        calls |-> [k \in 1..9 |->
                     EvaluationCalls(IntegrDetectors[((k - 1) % 3) + 1], z_threshold_integr,
                                     totals[((k - 1) % 3) + 1])[((k - 1) \div 3) + 1]]]

RatDiv(p, q) == Rat(p.num * q.den, p.den * q.num)

calculate_el_current_assymetry_NoAbs(ph1_total, ph2_total, ph3_total) ==
    LET el_current_integr_mean == Rat(ph1_total + ph2_total + ph3_total, 3)
        deviations == RatAdd(RatSub(RatInt(ph1_total), el_current_integr_mean),
                      RatAdd(RatSub(RatInt(ph2_total), el_current_integr_mean),
                             RatSub(RatInt(ph3_total), el_current_integr_mean)))
    IN IF el_current_integr_mean.num # 0
       THEN [kind |-> "number",
             value |-> RatMul(RatInt(100), RatDiv(deviations, el_current_integr_mean))]
       ELSE IF deviations.num = 0 THEN [kind |-> "nan"] ELSE [kind |-> "inf"]

\* the totals are numpy floats: a division by zero gives nan or inf and a
\* warning, not an exception
calculate_el_current_assymetry(ph1_total, ph2_total, ph3_total) ==
    LET el_current_integr_mean == Rat(ph1_total + ph2_total + ph3_total, 3)
        deviations == RatAdd(RatAbs(RatSub(RatInt(ph1_total), el_current_integr_mean)),
                      RatAdd(RatAbs(RatSub(RatInt(ph2_total), el_current_integr_mean)),
                             RatAbs(RatSub(RatInt(ph3_total), el_current_integr_mean))))
    IN IF el_current_integr_mean.num # 0
       THEN [kind |-> "number",
             value |-> RatMul(RatInt(100), RatDiv(deviations, el_current_integr_mean))]
       ELSE IF deviations.num = 0 THEN [kind |-> "nan"] ELSE [kind |-> "inf"]

\* a Python value that is a number, and the Python value False
Number(x) == [kind |-> "number", value |-> x]

False == [kind |-> "False", value |-> 0]

\* the guard of one phase: peak_number >= 1 peaks were found
PeakFound(peaks, peak_number) == Len(peaks) > 0 /\ peak_number <= Len(peaks)

InrushCurrent_FirstPeak(samples, peaks, peak_number) == At(samples, peaks[1])

\* samples[peaks[peak_number-1]]
InrushCurrent(samples, peaks, peak_number) == At(samples, peaks[peak_number])

\* the block of one phase: with the peak found, the sample at it is the
\* inrush current and the detector of the phase is evaluated with it
inrush_phase_NoGuard(detectors, name, samples, peaks, z_threshold_inrush, peak_number) ==
    [detectors EXCEPT ![name] =
        EvaluateDetector(@, z_threshold_inrush,
                         IF PeakFound(peaks, peak_number)
                         THEN InrushCurrent(samples, peaks, peak_number)
                         ELSE 0)]

inrush_phase(detectors, name, samples, peaks, z_threshold_inrush, peak_number) ==
    IF PeakFound(peaks, peak_number)
    THEN [detectors EXCEPT ![name] =
             EvaluateDetector(@, z_threshold_inrush,
                              InrushCurrent(samples, peaks, peak_number))]
    ELSE detectors

calculate_inrush_current_analytics(el_current_ph1_samples, el_current_ph2_samples, el_current_ph3_samples, z_threshold_inrush, height_of_peak, peak_number, detectors) ==
    LET samples == <<el_current_ph1_samples, el_current_ph2_samples, el_current_ph3_samples>>
        peaks == [i \in 1..3 |-> find_peaks(samples[i], height_of_peak)]
        found == [i \in 1..3 |-> PeakFound(peaks[i], peak_number)]
        inrush == [i \in 1..3 |-> IF found[i]
                                  THEN Number(InrushCurrent(samples[i], peaks[i], peak_number))
                                  ELSE False]
        phase(d, i) == inrush_phase(d, InrushDetectors[i], samples[i], peaks[i],
                                    z_threshold_inrush, peak_number)
        phase_calls(i) ==
            IF found[i]
            THEN EvaluationCalls(InrushDetectors[i], z_threshold_inrush, inrush[i].value)
            ELSE <<>>
    IN [analytics |-> phase(phase(phase(detectors, 1), 2), 3),
        \* what each phase block bound to its local variable
        selected |-> inrush,
        \* a phase without the peak leaves its local variable unbound: the
        \* return statement raises, the function logs and returns three False
        inrush |-> IF \A i \in 1..3 : found[i] THEN inrush ELSE [i \in 1..3 |-> False],
        calls |-> phase_calls(1) \o phase_calls(2) \o phase_calls(3)]

Round2(p) == Rat(RoundHalfEven(100 * p.num, p.den), 100)

\* round(float(el_current_assymetry), 2): nan and inf round to themselves
RoundAssymetry(a) ==
    IF a.kind = "number" THEN [kind |-> "number", value |-> Round2(a.value)] ELSE a

\* float(x) of an inrush value: float(False) is 0.0
FloatOf(x) == IF x.kind = "False" THEN 0 ELSE x.value

\* The messages.  decodable: the payload is a JSON document;
\* device_data: DeviceName, DeviceState, SynchPulse and the three phase
\* currents are present; tags: LineName, MachineName and TimeStamp are
\* present.  A phase current is a number or a list of numbers.
Message(device_state, synch_pulse, currents, tags) ==
    [decodable |-> TRUE, device_data |-> TRUE, tags |-> tags,
     DeviceState |-> device_state, SynchPulse |-> synch_pulse,
     CurrentL1 |-> currents[1], CurrentL2 |-> currents[2], CurrentL3 |-> currents[3]]

SampleSets ==
    {<< <<0, 2, 0>>, <<0, 1, 0>> , <<0, 0, 0>> >>,
     << <<1>>, <<1>>, <<4>> >>,
     << <<1>>, <<>>, <<1>> >>}

Undecodable ==
    [decodable |-> FALSE, device_data |-> FALSE, tags |-> FALSE,
     DeviceState |-> "", SynchPulse |-> FALSE,
     CurrentL1 |-> <<>>, CurrentL2 |-> <<>>, CurrentL3 |-> <<>>]

NoDeviceData == [Undecodable EXCEPT !.decodable = TRUE]

Messages ==
    {Undecodable, NoDeviceData}
    \cup {Message("Running", FALSE, c, TRUE) : c \in SampleSets}
    \cup {Message("Running", TRUE, << <<1>>, <<1>>, <<4>> >>, TRUE),
          Message("Running", FALSE, << <<1>>, <<1>>, <<4>> >>, FALSE),
          Message("Stopped", TRUE, << <<1>>, <<1>>, <<4>> >>, TRUE),
          Message("Stopped", FALSE, << <<1>>, <<1>>, <<4>> >>, TRUE),
          Message("Stopped", FALSE, << <<1>>, <<1>>, <<4>> >>, FALSE)}

\* what one run of the handler leaves behind
Outcome(ea, detectors, points, raised, logged, calls, write_attempted) ==
    [electrical_analytics |-> ea, analytics |-> detectors, influx |-> points,
     raised |-> raised, logged |-> logged, calls |-> calls,
     write_attempted |-> write_attempted]

\* on_message of the electrical script; write_succeeds is what the store
\* answers if the handler writes
\* lines 329-370: the point is built, which reads LineName, MachineName
\* and TimeStamp, and written; every exception is caught and logged
write_point_Raises(points, point, message, write_succeeds) ==
    [influx |-> IF message.tags /\ write_succeeds THEN Append(points, point) ELSE points,
     attempted |-> message.tags,
     logged |-> FALSE,
     raised |-> ~(message.tags /\ write_succeeds)]

write_point(points, point, message, write_succeeds) ==
    [influx |-> IF message.tags /\ write_succeeds THEN Append(points, point) ELSE points,
     attempted |-> message.tags,
     logged |-> ~(message.tags /\ write_succeeds),
     raised |-> FALSE]

cycle_outcome_NoClear(self, detectors, calls, written) ==
    Outcome(self, detectors, written.influx, written.raised, written.logged, calls,
            written.attempted)

\* lines 371-373: the handler continues after the try block and clears
\* the samples; had the write raised, the handler would end there
cycle_outcome(self, detectors, calls, written) ==
    Outcome(IF written.raised THEN self ELSE clear_samples(self),
            detectors, written.influx, written.raised, written.logged, calls,
            written.attempted)

\* lines 331-364: the fields of the point
build_point(el_current_assymetry, totals, inrush) ==
    [el_current_assymetry |-> RoundAssymetry(el_current_assymetry),
     el_current_integral |-> totals,
     el_inrush_current |-> [i \in 1..3 |-> FloatOf(inrush.inrush[i])],
     anomaly |-> [n \in DetectorNames |-> inrush.analytics[n].anomaly]]

\* lines 300-302: the totals are stored in the ElectricalAnalytics object
store_totals(self, totals) ==
    [self EXCEPT !.el_current_integr_ph1_total = totals[1],
                 !.el_current_integr_ph2_total = totals[2],
                 !.el_current_integr_ph3_total = totals[3]]

\* lines 328-373, given the results of the three calculations
cycle_emit(self, points, message, write_succeeds, integr_calls, el_current_assymetry, inrush) ==
    cycle_outcome(self, inrush.analytics, integr_calls \o inrush.calls,
                  write_point(points,
                              build_point(el_current_assymetry,
                                          <<self.el_current_integr_ph1_total,
                                            self.el_current_integr_ph2_total,
                                            self.el_current_integr_ph3_total>>,
                                          inrush),
                              message, write_succeeds))

\* lines 300-373, given the result of calculate_integr_analytics
cycle_derive(self, points, settings, message, write_succeeds, integr) ==
    cycle_emit(store_totals(self, integr.totals), points, message, write_succeeds,
               integr.calls,
               calculate_el_current_assymetry(integr.totals[1], integr.totals[2],
                                              integr.totals[3]),
               calculate_inrush_current_analytics(
                   self.el_current_ph1_samples, self.el_current_ph2_samples,
                   self.el_current_ph3_samples, settings.Z_SCORE_THRESHOLD,
                   settings.CURRENT_PEAK_HEIGHT, settings.CURRENT_PEAK_NUMBER,
                   integr.analytics))

\* lines 298-373: the branch that evaluates the buffered samples
evaluation_cycle(self, detectors, points, settings, message, write_succeeds) ==
    cycle_derive(self, points, settings, message, write_succeeds,
                 calculate_integr_analytics(self.el_current_ph1_samples,
                                            self.el_current_ph2_samples,
                                            self.el_current_ph3_samples,
                                            settings.Z_SCORE_THRESHOLD, detectors))

on_message(self, detectors, points, settings, message, write_succeeds) ==
    IF ~message.decodable
    THEN \* json.loads raises outside every try
         Outcome(self, detectors, points, TRUE, FALSE, <<>>, FALSE)
    ELSE IF ~message.device_data
    THEN Outcome(self, detectors, points, FALSE, TRUE, <<>>, FALSE)
    ELSE IF message.DeviceState = "Running"
    THEN Outcome(append_samples(self, message.CurrentL1, message.CurrentL2, message.CurrentL3),
                 detectors, points, FALSE, FALSE, <<>>, FALSE)
    ELSE IF message.SynchPulse = TRUE
    THEN Outcome(clear_samples(self), detectors, points, FALSE, FALSE, <<>>, FALSE)
    ELSE IF /\ samples_number_ph1(self) > 0
            /\ samples_number_ph2(self) > 0
            /\ samples_number_ph3(self) > 0
    THEN evaluation_cycle(self, detectors, points, settings, message, write_succeeds)
    ELSE Outcome(self, detectors, points, FALSE, FALSE, <<>>, FALSE)

\* the values the calls gave to check_if_anomaly of one detector, in order
RECURSIVE ValuesFed(_, _)
ValuesFed(calls, name) ==
    IF calls = <<>> THEN <<>>
    ELSE (IF Head(calls).detector = name /\ Head(calls).method = "check_if_anomaly"
          THEN <<Head(calls).arg>> ELSE <<>>) \o ValuesFed(Tail(calls), name)

NotHandled ==
    [count |-> 0, message |-> Undecodable, raised |-> FALSE, logged |-> FALSE,
     calls |-> <<>>, write_attempted |-> FALSE,
     fed |-> [n \in DetectorNames |-> <<>>],
     buffered |-> <<0, 0, 0>>,
     pending |-> << <<>>, <<>>, <<>> >>]

\* the module-level statements of the script: the settings, the buffer and
\* the six detectors
InitElectrical ==
    /\ det = <<>> /\ fed = <<>> /\ last = NoCall /\ call = NoCall
    /\ env \in [MODEL_WINDOW_SIZE : ModelWindowSizes,
                ANOMALY_LIST_SIZE : AnomalyListSizesElectrical,
                Z_SCORE_THRESHOLD : ZScoreThresholdsElectrical,
                CURRENT_PEAK_HEIGHT : CurrentPeakHeights,
                CURRENT_PEAK_NUMBER : CurrentPeakNumbers]
    /\ electrical_analytics = ElectricalAnalytics_init
    /\ analytics = [n \in DetectorNames |->
                       AnomalyDetectionZscore_init(env.MODEL_WINDOW_SIZE,
                                                   env.ANOMALY_LIST_SIZE)]
    /\ influx = <<>>
    /\ handled = NotHandled

\* the samples Running messages delivered since start-up, the last pulse
\* of a message that is not Running, or the last evaluation, per phase
PendingAfter(pending, message, calls) ==
    IF ~(message.decodable /\ message.device_data) THEN pending
    ELSE IF message.DeviceState = "Running"
    THEN <<pending[1] \o message.CurrentL1,
           pending[2] \o message.CurrentL2,
           pending[3] \o message.CurrentL3>>
    ELSE IF message.SynchPulse = TRUE \/ calls # <<>> THEN << <<>>, <<>>, <<>> >>
    ELSE pending

\* what one run of the handler, with outcome o, leaves in the state
Handled(o, message) ==
    /\ electrical_analytics' = o.electrical_analytics
    /\ analytics' = o.analytics
    /\ influx' = o.influx
    /\ handled' = [count |-> handled.count + 1, message |-> message,
                   raised |-> o.raised, logged |-> o.logged,
                   calls |-> o.calls, write_attempted |-> o.write_attempted,
                   fed |-> [n \in DetectorNames |->
                               handled.fed[n] \o ValuesFed(o.calls, n)],
                   buffered |-> <<samples_number_ph1(electrical_analytics),
                                  samples_number_ph2(electrical_analytics),
                                  samples_number_ph3(electrical_analytics)>>,
                   pending |-> PendingAfter(handled.pending, message, o.calls)]

\* the MQTT client delivers one message and the handler runs to its end
OnMessage ==
    /\ handled.count < MaxMessages
    /\ \E message \in Messages, write_succeeds \in BOOLEAN :
          Handled(on_message(electrical_analytics, analytics, influx, env,
                             message, write_succeeds), message)
    /\ UNCHANGED <<detector_vars, env, call>>

NextElectrical == OnMessage

SpecElectrical == InitElectrical /\ [][NextElectrical]_vars

(***************************************************************************)
(* The two calculators of the electrical script on their own: call holds   *)
(* the arguments, and after the call the function's name and its result.   *)
(***************************************************************************)
MaxSamples == 5

RECURSIVE SeqsUpTo(_, _)
SeqsUpTo(S, n) ==
    IF n = 0 THEN {<<>>}
    ELSE LET shorter == SeqsUpTo(S, n - 1)
         IN shorter \cup {Append(q, v) : q \in {r \in shorter : Len(r) = n - 1}, v \in S}

\* a phase with its peaks at the indices 3, 9 and 15
PeaksAt3_9_15 ==
    [k \in 1..17 |-> IF k = 4 THEN 5 ELSE IF k = 10 THEN 7 ELSE IF k = 16 THEN 6 ELSE 0]

PhaseSamplesInrush == SeqsUpTo({0, 1, 2}, MaxSamples) \cup {PeaksAt3_9_15}

OtherPhaseSamples == {<<0, 2, 0>>, <<0, 0>>}

PeakHeightsInrush == {1, 2}

PeakNumbersInrush == 1..4

FreshDetectors == [n \in DetectorNames |-> AnomalyDetectionZscore_init(2, 1)]

InitInrush ==
    /\ det = <<>> /\ fed = <<>> /\ last = NoCall
    /\ ElectricalIdle
    /\ \E ph1 \in PhaseSamplesInrush, other \in OtherPhaseSamples,
          height_of_peak \in PeakHeightsInrush, peak_number \in PeakNumbersInrush :
          call = [op |-> "arguments",
                  arg |-> [samples |-> <<ph1, other, other>>,
                           z_threshold_inrush |-> 2,
                           height_of_peak |-> height_of_peak,
                           peak_number |-> peak_number],
                  result |-> <<>>]

CalculateInrushCurrentAnalytics ==
    /\ call.op = "arguments"
    /\ call' = [op |-> "calculate_inrush_current_analytics",
                arg |-> call.arg,
                result |-> calculate_inrush_current_analytics(
                               call.arg.samples[1], call.arg.samples[2], call.arg.samples[3],
                               call.arg.z_threshold_inrush, call.arg.height_of_peak,
                               call.arg.peak_number, FreshDetectors)]
    /\ UNCHANGED <<detector_vars, electrical_vars>>

NextInrush == CalculateInrushCurrentAnalytics

SpecInrush == InitInrush /\ [][NextInrush]_vars

Totals == {-2, -1, 0, 1, 2, 100, 103}

InitAssymetry ==
    /\ det = <<>> /\ fed = <<>> /\ last = NoCall
    /\ ElectricalIdle
    /\ \E a \in Totals, b \in Totals, c \in Totals :
          call = [op |-> "arguments", arg |-> <<a, b, c>>, result |-> <<>>]

CalculateElCurrentAssymetry ==
    /\ call.op = "arguments"
    /\ call' = [op |-> "calculate_el_current_assymetry",
                arg |-> call.arg,
                result |-> calculate_el_current_assymetry(call.arg[1], call.arg[2], call.arg[3])]
    /\ UNCHANGED <<detector_vars, electrical_vars>>

NextAssymetry == CalculateElCurrentAssymetry

SpecAssymetry == InitAssymetry /\ [][NextAssymetry]_vars

(***************************************************************************)
(* Reading the settings at start-up: get_env_var of the scripts and        *)
(* get_params of helper.py, and the module-level statements of the         *)
(* vibration script that read the settings before main constructs the      *)
(* detector.  call holds the arguments and the result of one call, or the  *)
(* progress of the start-up.                                               *)
(***************************************************************************)
\* Python values: None, a string, an int, a float
PyNone == [type |-> "NoneType", text |-> "", num |-> RatInt(0)]

PyStr(t) == [type |-> "str", text |-> t, num |-> RatInt(0)]

PyInt(n) == [type |-> "int", text |-> "", num |-> RatInt(n)]

PyFloat(q) == [type |-> "float", text |-> "", num |-> q]

\* the values an environment variable has in the model
EnvTexts == {"", "0", "5", "2.5", "abc"}

EnvValues == {PyNone} \cup {PyStr(t) : t \in EnvTexts}

\* the req_type arguments: the three allowed types, a type that is not
\* allowed, and None (the default of the parameter)
ReqTypes == {"str", "int", "float", "bool", "None"}

Defaults == {PyNone, PyInt(100), PyFloat(RatInt(2)), PyStr("x")}

\* int(text) and float(text) succeed
IntConverts(text) == text \in {"0", "5"}

FloatConverts(text) == text \in {"0", "5", "2.5"}

\* req_type(env_val)
Converted(req_type, text) ==
    IF req_type = "int"
    THEN PyInt(IF text = "5" THEN 5 ELSE 0)
    ELSE PyFloat(IF text = "5" THEN RatInt(5) ELSE IF text = "2.5" THEN Rat(5, 2) ELSE RatInt(0))

ConversionRaises(req_type, text) ==
    \/ req_type = "int" /\ ~IntConverts(text)
    \/ req_type = "float" /\ ~FloatConverts(text)

SystemExit == [outcome |-> "SystemExit", value |-> PyNone]

Return(v) == [outcome |-> "return", value |-> v]

get_env_var_DefaultOnBadValue(env_val, req_type, default) ==
    IF req_type \notin {"str", "int", "float"} /\ req_type # "None" THEN SystemExit
    ELSE IF env_val = PyNone /\ default = PyNone THEN SystemExit
    ELSE IF env_val = PyNone THEN Return(default)
    ELSE IF req_type # "str" /\ req_type # "None"
    THEN IF ConversionRaises(req_type, env_val.text)
         THEN Return(default)
         ELSE Return(Converted(req_type, env_val.text))
    ELSE Return(env_val)

\* env_val is os.getenv(env_var, None); type(env_var) is str
get_env_var(env_val, req_type, default) ==
    IF req_type \notin {"str", "int", "float"} /\ req_type # "None" THEN SystemExit
    ELSE IF env_val = PyNone /\ default = PyNone THEN SystemExit
    ELSE IF env_val = PyNone THEN Return(default)
    ELSE IF req_type # "str" /\ req_type # "None"
    THEN IF ConversionRaises(req_type, env_val.text)
         THEN SystemExit
         ELSE Return(Converted(req_type, env_val.text))
    ELSE Return(env_val)

get_params(env_val, req_type, default) ==
    IF req_type \notin {"str", "int", "float"} /\ req_type # "None" THEN SystemExit
    ELSE IF env_val = PyNone /\ default = PyNone THEN SystemExit
    ELSE IF env_val = PyNone THEN Return(default)
    ELSE IF req_type # "str" /\ req_type # "None"
    THEN IF ConversionRaises(req_type, env_val.text)
         THEN SystemExit
         ELSE Return(Converted(req_type, env_val.text))
    ELSE Return(env_val)

\* the settings the vibration script reads, in the order of its statements,
\* each with its req_type and default
Settings ==
    <<[name |-> "MQTT_PORT", req_type |-> "int", default |-> PyNone],
      [name |-> "Z_SCORE_THRESHOLD", req_type |-> "float", default |-> PyFloat(RatInt(2))],
      [name |-> "MODEL_WINDOW_SIZE", req_type |-> "int", default |-> PyInt(100)],
      [name |-> "ANOMALY_LIST_SIZE", req_type |-> "int", default |-> PyInt(100)]>>

SettingNames == {Settings[i].name : i \in 1..Len(Settings)}

InitConfig ==
    /\ det = <<>> /\ fed = <<>> /\ last = NoCall
    /\ ElectricalIdle
    /\ \/ \E env_val \in EnvValues, req_type \in ReqTypes, default \in Defaults :
             call = [op |-> "arguments",
                     arg |-> [env_val |-> env_val, req_type |-> req_type, default |-> default],
                     result |-> <<>>]
       \/ \E environ \in [SettingNames -> EnvValues] :
             call = [op |-> "startup", environ |-> environ, read |-> 0,
                     values |-> [n \in SettingNames |-> PyNone],
                     exited |-> FALSE, constructed |-> FALSE, detector |-> <<>>]

GetEnvVar ==
    /\ call.op = "arguments"
    /\ call' = [op |-> "get_env_var", arg |-> call.arg,
                result |-> get_env_var(call.arg.env_val, call.arg.req_type, call.arg.default)]
    /\ UNCHANGED <<detector_vars, electrical_vars>>

GetParams ==
    /\ call.op = "arguments"
    /\ call' = [op |-> "get_params", arg |-> call.arg,
                result |-> get_params(call.arg.env_val, call.arg.req_type, call.arg.default)]
    /\ UNCHANGED <<detector_vars, electrical_vars>>

\* the result of reading one setting: SystemExit ends the process
AfterRead(c, setting, got) ==
    IF got.outcome = "SystemExit"
    THEN [c EXCEPT !.read = @ + 1, !.exited = TRUE]
    ELSE [c EXCEPT !.read = @ + 1, !.values[setting.name] = got.value]

\* the next module-level statement that reads a setting
ReadSetting ==
    /\ call.op = "startup" /\ ~call.exited /\ call.read < Len(Settings)
    /\ call' = AfterRead(call, Settings[call.read + 1],
                         get_env_var(call.environ[Settings[call.read + 1].name],
                                     Settings[call.read + 1].req_type,
                                     Settings[call.read + 1].default))
    /\ UNCHANGED <<detector_vars, electrical_vars>>

\* main constructs the detector from the settings read
ConstructDetector ==
    /\ call.op = "startup" /\ ~call.exited /\ call.read = Len(Settings)
    /\ ~call.constructed
    /\ call' = [call EXCEPT !.constructed = TRUE,
                            !.detector = [model_size |-> call.values["MODEL_WINDOW_SIZE"],
                                          anomaly_list_size |-> call.values["ANOMALY_LIST_SIZE"]]]
    /\ UNCHANGED <<detector_vars, electrical_vars>>

NextConfig == GetEnvVar \/ GetParams \/ ReadSetting \/ ConstructDetector

SpecConfig == InitConfig /\ [][NextConfig]_vars

(***************************************************************************)
(* reset_algorithm against the constructor.  One detector of either class  *)
(* is fed (check_if_anomaly, then calculate_anomaly_ratio), has its        *)
(* threshold assigned, and is reset once; from the reset on every call is  *)
(* made on it and on a detector constructed at that moment with the same   *)
(* arguments and the threshold in effect.                                  *)
(*   det   the detector that is reset                                      *)
(*   fed   the values fed since construction or since the reset            *)
(*   call  whether the reset was made, the detector as it was just before  *)
(*         the reset, and the freshly constructed detector                 *)
(***************************************************************************)
MaxFeedsBeforeReset == 3
MaxFeedsAfterReset == 4

ModelSizesReset == {1, 2}
AnomalyListSizesReset == {1, 2}

\* __init__ with the arguments the detector was constructed with, and for
\* the z-score class the assignment of the threshold it has
Constructed(d) ==
    IF IsStdDev(d)
    THEN AnomalyDetection3StdDev_init(d.model_size, d.anomaly_list_size, d.thresh_std_dev_limit)
    ELSE LET fresh == AnomalyDetectionZscore_init(d.model_size, d.anomaly_list_size)
         IN IF d.z_score_thresh = RatInt(0) THEN fresh
            ELSE Zscore_set_z_score_thresh(fresh, d.z_score_thresh)

reset_algorithm(d) ==
    IF IsStdDev(d) THEN StdDev_reset_algorithm(d) ELSE Zscore_reset_algorithm(d)

\* check_if_anomaly(value) or check_if_anomaly(value, limit), then
\* calculate_anomaly_ratio()
Feed(d, value, limit) ==
    IF IsStdDev(d)
    THEN StdDev_calculate_anomaly_ratio(StdDev_check_if_anomaly(d, value, limit))
    ELSE Zscore_calculate_anomaly_ratio(Zscore_check_if_anomaly(d, value))

FeedRaises(d, value, limit) ==
    IF IsStdDev(d) THEN StdDev_check_raises(d, value, limit)
                   ELSE Zscore_check_raises(d, value)

FeedValues(d) == IF IsStdDev(d) THEN Values3StdDev ELSE ValuesZscore

FeedLimits(d) == IF IsStdDev(d) THEN Limits ELSE {0}

InitReset ==
    /\ \/ \E n \in ModelSizesReset, m \in AnomalyListSizesReset, t \in ThreshStdDevLimits :
              det = AnomalyDetection3StdDev_init(n, m, t)
       \/ \E n \in ModelSizesReset, m \in AnomalyListSizesReset :
              det = AnomalyDetectionZscore_init(n, m)
    /\ fed = <<>>
    /\ last = NoCall
    /\ ElectricalIdle
    /\ call = [op |-> "__init__", before |-> det, fresh |-> det]

FeedBeforeReset ==
    \E value \in FeedValues(det), limit \in FeedLimits(det) :
        /\ call.op = "__init__"
        /\ Len(fed) < MaxFeedsBeforeReset
        /\ det' = Feed(det, value, limit)
        /\ fed' = Append(fed, FedEntry(value, det, FeedRaises(det, value, limit), det'))
        /\ last' = [op |-> "feed", arg |-> limit]
        /\ UNCHANGED <<electrical_vars, call>>

AssignThreshold ==
    \E z_threshold \in ZScoreThresholds :
        /\ IsZscore(det)
        /\ det' = Zscore_set_z_score_thresh(det, RatInt(z_threshold))
        /\ call' = IF call.op = "__init__" THEN call
                   ELSE [call EXCEPT !.fresh = Zscore_set_z_score_thresh(@, RatInt(z_threshold))]
        /\ last' = [op |-> "z_score_thresh", arg |-> z_threshold]
        /\ UNCHANGED <<electrical_vars, fed>>

ResetAndConstruct ==
    /\ call.op = "__init__"
    /\ det' = reset_algorithm(det)
    /\ call' = [op |-> "reset_algorithm", before |-> det, fresh |-> Constructed(det)]
    /\ fed' = <<>>
    /\ last' = [op |-> "reset_algorithm", arg |-> 0]
    /\ UNCHANGED electrical_vars

FeedAfterReset ==
    \E value \in FeedValues(det), limit \in FeedLimits(det) :
        /\ call.op = "reset_algorithm"
        /\ Len(fed) < MaxFeedsAfterReset
        /\ det' = Feed(det, value, limit)
        /\ call' = [call EXCEPT !.fresh = Feed(@, value, limit)]
        /\ fed' = Append(fed, FedEntry(value, det, FeedRaises(det, value, limit), det'))
        /\ last' = [op |-> "feed", arg |-> limit]
        /\ UNCHANGED electrical_vars

NextReset ==
    \/ FeedBeforeReset
    \/ AssignThreshold
    \/ ResetAndConstruct
    \/ FeedAfterReset

SpecReset == InitReset /\ [][NextReset]_vars

(***************************************************************************)
(* What the properties below read off the recorded calls.                  *)
(***************************************************************************)
\* the step is a check_if_anomaly call
CheckStep == Len(fed') = Len(fed) + 1

\* the check_if_anomaly call of a CheckStep, as recorded
ThisCall == fed'[Len(fed')]

\* the most recent check_if_anomaly call since the last reset
LastFed == fed[Len(fed)]

\* the state is the one a check_if_anomaly call on a complete model left
AfterDecision ==
    /\ fed # <<>>
    /\ last.op = "check_if_anomaly"
    /\ LastFed.complete
    /\ ~LastFed.raised

FedValues(f) == [i \in 1..Len(f) |-> f[i].value]

\* the values the window took in: every value fed while the model was
\* filling and every value judged not anomalous afterwards
RECURSIVE AcceptedValues(_)
AcceptedValues(f) ==
    IF f = <<>> THEN <<>>
    ELSE LET e == Head(f)
         IN (IF ~e.complete \/ (~e.raised /\ e.anomaly = 0) THEN <<e.value>> ELSE <<>>)
            \o AcceptedValues(Tail(f))

\* l <= v <= u
Within(l, v, u) == RealSign(RealSub(v, l)) >= 0 /\ RealSign(RealSub(u, v)) >= 0

\* every entry of the window is the same value
AllEqual(data) == \A i \in 1..Len(data) : data[i] = data[1]

\* the magnitudes of the entries of a window
Magnitudes(data) == [i \in 1..Len(data) |-> IAbs(data[i])]

\* sum(flags) / anomaly_list_size rounded to three decimals
FractionOfOnes(d) == Round3(Rat(Sum(d.anomaly_list), d.anomaly_list_size))

\* the flag list holds anomaly_list_size flags
AtCapacity(d) == Len(d.anomaly_list) = d.anomaly_list_size

\* the anomaly flags of the evaluations made on a complete model, in order
RECURSIVE Decisions(_)
Decisions(f) ==
    IF f = <<>> THEN <<>>
    ELSE (IF Head(f).complete THEN <<Head(f).anomaly>> ELSE <<>>) \o Decisions(Tail(f))

\* the last n entries of a sequence of at least n entries
LastN(seq, n) == SubSeq(seq, Len(seq) - n + 1, Len(seq))

\* the bounds held are thresh_std_dev_limit either side of their centre,
\* which is how the floor branch of check_if_anomaly leaves them
FloorEngaged(d) ==
    RealSub(d.u_thresh, d.l_thresh) = Real(RatInt(2 * d.thresh_std_dev_limit))

(***************************************************************************)
(* C1.  A check_if_anomaly call on a complete model that judges the value  *)
(* anomalous leaves the window as it was, in both classes.                 *)
(***************************************************************************)
C1_AnomalousValueNotAppended ==
    [][(CheckStep /\ is_model_complete(det) /\ ~ThisCall.raised /\ det'.anomaly = 1)
          => det'.model_data = det.model_data]_vars

C1_Witness ==
    /\ AfterDecision
    /\ IsZscore(det)
    /\ det.anomaly = 1
    /\ det.model_size = 3
    /\ LastFed.value \notin {det.model_data[i] : i \in 1..Len(det.model_data)}

(***************************************************************************)
(* C2.  Once N = model_size values have been fed, the window holds N       *)
(* entries in every later state up to the next reset, and they are the     *)
(* last N accepted values in arrival order: with k accepted values its     *)
(* oldest entry is the (k-N+1)-th of them.                                 *)
(***************************************************************************)
C2_WindowIsLastAccepted ==
    LET acc == AcceptedValues(fed)
        k == Len(acc)
        N == det.model_size
    IN Len(fed) >= N =>
          /\ k >= N
          /\ Len(det.model_data) = N
          /\ det.model_data = SubSeq(acc, k - N + 1, k)

C2_Witness ==
    LET acc == AcceptedValues(fed)
    IN /\ IsZscore(det)
       /\ det.model_size = 2
       /\ Len(fed) = 4
       /\ Len(acc) = 3
       /\ acc[1] # acc[2]
       /\ det.model_data = <<acc[2], acc[3]>>

(***************************************************************************)
(* C3.  In every reachable state of either class the window holds at most  *)
(* model_size entries.                                                     *)
(***************************************************************************)
C3_WindowBounded == Len(det.model_data) <= det.model_size

C3_Witness ==
    /\ AfterDecision
    /\ IsStdDev(det)
    /\ det.anomaly = 0
    /\ Len(det.model_data) = det.model_size
    /\ det.model_size = 3
    /\ det.model_data[3] = LastFed.value
    /\ det.model_data[1] # det.model_data[3]

(***************************************************************************)
(* C4.  From a fresh or reset detector with model_size = N, each of the    *)
(* first N check_if_anomaly calls appends its value whatever it is, the    *)
(* anomaly flag is 0 throughout, and the model is complete after the N-th  *)
(* call and not before.                                                    *)
(***************************************************************************)
C4_WarmUp ==
    Len(fed) <= det.model_size =>
        /\ det.model_data = FedValues(fed)
        /\ det.anomaly = 0
        /\ is_model_complete(det) <=> Len(fed) = det.model_size

C4_Witness ==
    /\ IsZscore(det)
    /\ det.model_size = 3
    /\ Len(fed) = 3
    /\ det.model_data = <<1, -1, 0>>
    /\ det.z_score_thresh = RatInt(1)
    /\ is_model_complete(det)

(***************************************************************************)
(* C5.  Sigma band, complete model (model_size > 1, the documented         *)
(* precondition of the sample standard deviation): the value is judged     *)
(* not anomalous, and replaces the oldest entry of the window, iff         *)
(* l_thresh <= value <= u_thresh with both bounds inclusive; otherwise it  *)
(* is judged anomalous and the window is unchanged.                        *)
(***************************************************************************)
C5_SigmaBandInclusive ==
    [][(CheckStep /\ IsStdDev(det) /\ is_model_complete(det) /\ det.model_size > 1) =>
          LET v == ThisCall.value
          IN IF Within(det'.l_thresh, Real(RatInt(v)), det'.u_thresh)
             THEN det'.anomaly = 0 /\ det'.model_data = Append(Tail(det.model_data), v)
             ELSE det'.anomaly = 1 /\ det'.model_data = det.model_data]_vars

\* window [10,10,10], limit 0, next value 10: bounds [10,10], accepted
C5_Witness ==
    /\ AfterDecision
    /\ IsStdDev(det)
    /\ last.arg = 0
    /\ LastFed.value = 10
    /\ Len(fed) = 4
    /\ FedValues(fed) = <<10, 10, 10, 10>>
    /\ det.model_avg = RatInt(10)
    /\ det.model_std_dev = Real(RatInt(0))
    /\ det.l_thresh = Real(RatInt(10))
    /\ det.u_thresh = Real(RatInt(10))
    /\ det.anomaly = 0
    /\ det.model_data = <<10, 10, 10>>

(***************************************************************************)
(* C6.  Sigma band, complete model: with floor_limit the limit passed to   *)
(* the evaluation, if floor_limit > 0 and std_dev < floor_limit the bounds *)
(* are mean +- floor_limit, and in every other case mean +- 3 * std_dev;   *)
(* the value compared with std_dev is the value added to and subtracted    *)
(* from the mean.  The code compares std_dev with the argument limit and   *)
(* adds the constructor's thresh_std_dev_limit, so this does not hold.     *)
(***************************************************************************)
C6_FloorComparedIsFloorApplied ==
    [][(CheckStep /\ IsStdDev(det) /\ is_model_complete(det) /\ det.model_size > 1) =>
          LET floor_limit == last'.arg
              avg == det'.model_avg
              std == det'.model_std_dev
              three == RealScale(3, std)
          IN IF floor_limit > 0 /\ RealSign(RealSub(Real(RatInt(floor_limit)), std)) > 0
             THEN /\ det'.u_thresh = Real(RatAdd(avg, RatInt(floor_limit)))
                  /\ det'.l_thresh = Real(RatSub(avg, RatInt(floor_limit)))
             ELSE /\ det'.u_thresh = RealAddRat(three, avg)
                  /\ det'.l_thresh = RealAddRat(RealNeg(three), avg)]_vars

(***************************************************************************)
(* C7.  Z-score, complete model (model_size > 1): the value is judged      *)
(* anomalous and not accepted iff |z_score| > z_score_thresh, strictly;    *)
(* otherwise, |z_score| = z_score_thresh included, the flag is 0 and the   *)
(* value replaces the oldest entry of the window.                          *)
(***************************************************************************)
C7_ZscoreStrictThreshold ==
    [][(CheckStep /\ IsZscore(det) /\ is_model_complete(det) /\ det.model_size > 1) =>
          LET v == ThisCall.value
              z == det'.z_score
              t == det'.z_score_thresh
          IN IF IAbs(z.num) * t.den > t.num * z.den
             THEN det'.anomaly = 1 /\ det'.model_data = det.model_data
             ELSE det'.anomaly = 0 /\ det'.model_data = Append(Tail(det.model_data), v)]_vars

\* |z_score| equals the threshold exactly and the value is accepted
C7_Witness ==
    /\ AfterDecision
    /\ IsZscore(det)
    /\ det.model_size > 1
    /\ det.z_score_thresh.num > 0
    /\ RatAbs(det.z_score) = det.z_score_thresh
    /\ det.anomaly = 0
    /\ det.model_data[Len(det.model_data)] = LastFed.value

(***************************************************************************)
(* C8.  Z-score on a complete window whose entries are all equal           *)
(* (standard deviation 0, model_size > 1): the call does not fail,         *)
(* model_std_dev becomes 0.001, z_score is (|value| - mean) / 0.001, and   *)
(* the decision rule is applied to that z_score.                           *)
(***************************************************************************)
C8_ZeroStdDevSubstituted ==
    [][(CheckStep /\ IsZscore(det) /\ is_model_complete(det) /\ det.model_size > 1
           /\ AllEqual(det.model_data)) =>
          LET v == ThisCall.value
              c == det.model_data[1]
              z == RatInt(1000 * (IAbs(v) - IAbs(c)))
              t == det.z_score_thresh
              anomalous == IAbs(z.num) * t.den > t.num * z.den
          IN /\ ~ThisCall.raised
             /\ det'.model_avg = RatInt(IAbs(c))
             /\ det'.model_std_dev = Real(Rat(1, 1000))
             /\ det'.z_score = z
             /\ det'.anomaly = IF anomalous THEN 1 ELSE 0
             /\ det'.model_data = IF anomalous THEN det.model_data
                                  ELSE Append(Tail(det.model_data), v)]_vars

C8_Witness ==
    /\ AfterDecision
    /\ IsZscore(det)
    /\ det.model_data = <<0, 0, 0>>
    /\ LastFed.value = -1
    /\ det.model_std_dev = Real(Rat(1, 1000))
    /\ det.z_score = RatInt(1000)
    /\ det.anomaly = 1

(***************************************************************************)
(* C9.  Z-score sign-insensitivity: from every state with a complete       *)
(* model, check_if_anomaly(v) and check_if_anomaly(-v) give the same       *)
(* z_score and the same anomaly flag.                                      *)
(***************************************************************************)
C9_SignInsensitive ==
    (IsZscore(det) /\ is_model_complete(det)) =>
        \A v \in ValuesZscore :
            LET a == Zscore_check_if_anomaly(det, v)
                b == Zscore_check_if_anomaly(det, -v)
            IN a.z_score = b.z_score /\ a.anomaly = b.anomaly

\* a negative value was evaluated on a complete model and got the positive
\* z-score of its magnitude
C9_Witness ==
    /\ AfterDecision
    /\ IsZscore(det)
    /\ det.model_size > 1
    /\ LastFed.value = -1
    /\ det.z_score.num > 0
    /\ det.z_score.den = 1000
    /\ det.anomaly = 0

(***************************************************************************)
(* C10.  Z-score: the model mean used for the z-score is the mean of the   *)
(* magnitudes of the window entries (rounded to three decimals), for       *)
(* every window, windows holding values of both signs included.  The code  *)
(* takes the magnitude of the mean, so this does not hold.                 *)
(***************************************************************************)
C10_MeanOfMagnitudes ==
    [][(CheckStep /\ IsZscore(det) /\ is_model_complete(det) /\ det.model_size > 1) =>
          det'.model_avg = Round3(mean(Magnitudes(det.model_data)))]_vars

(***************************************************************************)
(* C11.  Assigning 0 to z_score_thresh does not fail and leaves the        *)
(* threshold at the default 2.0; assigning a non-zero value stores that    *)
(* value; no other field of the detector changes.                          *)
(***************************************************************************)
C11_ZeroThresholdReplaced ==
    [][(last'.op = "z_score_thresh") =>
          /\ det'.z_score_thresh =
                 IF last'.arg = 0 THEN RatInt(2) ELSE RatInt(last'.arg)
          /\ det' = [det EXCEPT !.z_score_thresh = det'.z_score_thresh]]_vars

\* 0 was assigned and the threshold in effect is 2.0
C11_Witness ==
    /\ IsZscore(det)
    /\ last = [op |-> "z_score_thresh", arg |-> 0]
    /\ det.z_score_thresh = RatInt(2)
    /\ is_model_complete(det)
    /\ fed # <<>>

(***************************************************************************)
(* C12.  In every state in which the z-score detector has made a decision  *)
(* on a complete model the threshold in effect is strictly positive,       *)
(* whatever assignments were made, none included.  The constructor sets    *)
(* the threshold to 0.0 and only the setter replaces a 0, so a detector    *)
(* whose threshold was never assigned decides with threshold 0.            *)
(***************************************************************************)
C12_ThresholdPositive ==
    (IsZscore(det) /\ AfterDecision) => det.z_score_thresh.num > 0

(***************************************************************************)
(* C13.  Ratio warm-up, both classes: anomaly_ratio is 0 in every state in *)
(* which the model is not complete or fewer than anomaly_list_size flags   *)
(* have been recorded, however many values were fed and whatever they      *)
(* were.                                                                   *)
(***************************************************************************)
C13_RatioWarmUp ==
    (~is_model_complete(det) \/ Len(det.anomaly_list) < det.anomaly_list_size)
        => det.anomaly_ratio = RatInt(0)

\* a complete model with an anomalous flag recorded, one record short of
\* capacity, and the ratio still 0
C13_Witness ==
    /\ is_model_complete(det)
    /\ det.model_size = 3
    /\ det.anomaly_list_size = 2
    /\ det.anomaly_list = <<1>>
    /\ det.anomaly_ratio = RatInt(0)
    /\ last.op = "calculate_anomaly_ratio"

(***************************************************************************)
(* C14 as stated.  In every state in which the flag list is at capacity    *)
(* and the model is complete, anomaly_ratio is the fraction of 1s in the   *)
(* flag list.  The record that fills the list does not compute the ratio,  *)
(* so this does not hold between that record and the next one.             *)
(***************************************************************************)
C14_RatioIsFractionAtCapacity ==
    (AtCapacity(det) /\ is_model_complete(det)) => det.anomaly_ratio = FractionOfOnes(det)

(***************************************************************************)
(* C14 amended.  A calculate_anomaly_ratio call made with the model        *)
(* complete and the flag list already at capacity leaves anomaly_ratio     *)
(* equal to the fraction of 1s in the flag list (sum / anomaly_list_size   *)
(* rounded to 3 decimals); reset_algorithm sets it to 0; every other call, *)
(* the record that fills the list included, leaves it at its previous      *)
(* value (initially 0).  So in a state with the list at capacity and the   *)
(* model complete the ratio is that fraction or still 0.                   *)
(***************************************************************************)
C14_RatioIsFractionAfterRecordAtCapacity ==
    /\ []((AtCapacity(det) /\ is_model_complete(det))
             => det.anomaly_ratio \in {FractionOfOnes(det), RatInt(0)})
    /\ [][IF last'.op = "calculate_anomaly_ratio" /\ is_model_complete(det) /\ AtCapacity(det)
          THEN det'.anomaly_ratio = FractionOfOnes(det')
          ELSE IF last'.op = "reset_algorithm"
          THEN det'.anomaly_ratio = RatInt(0)
          ELSE det'.anomaly_ratio = det.anomaly_ratio]_vars

\* a record made at capacity evicted a 0 and left one anomalous flag of
\* three: the ratio is 1/3 rounded, 0.333
C14_Witness ==
    /\ IsStdDev(det)
    /\ last.op = "calculate_anomaly_ratio"
    /\ det.anomaly_list_size = 3
    /\ det.anomaly_list = <<0, 0, 1>>
    /\ det.anomaly_ratio = Rat(333, 1000)
    /\ det.anomaly = 1

(***************************************************************************)
(* C15.  With check_if_anomaly and calculate_anomaly_ratio called in       *)
(* alternation as the scripts do, and M = anomaly_list_size: once M        *)
(* evaluations have been made on a complete model anomaly_ratio is the     *)
(* fraction of anomalous outcomes among the last M of them, and before     *)
(* that it is 0; the flag recorded by the call that completes the model    *)
(* is in no computed ratio.                                                *)
(***************************************************************************)
C15_RatioOverLastDecisions ==
    LET dec == Decisions(fed)
        M == det.anomaly_list_size
    IN det.anomaly_ratio =
           IF Len(dec) >= M THEN Round3(Rat(Sum(LastN(dec, M)), M)) ELSE RatInt(0)

\* model of 2, list of 3, six evaluations: the first decision has left the
\* list, two of the last three are anomalous and the ratio is 0.667
C15_Witness ==
    /\ last.op = "evaluate"
    /\ det.model_size = 2
    /\ det.anomaly_list_size = 3
    /\ Len(fed) = 6
    /\ Decisions(fed) = <<0, 1, 0, 1>>
    /\ det.anomaly_list = <<1, 0, 1>>
    /\ det.anomaly_ratio = Rat(667, 1000)

(***************************************************************************)
(* C16.  In every reachable state the flag list holds at most              *)
(* anomaly_list_size entries, each 0 or 1; a record on a complete model    *)
(* appends the current anomaly flag, after evicting the oldest flag when   *)
(* the list is at capacity, so the list is the most recent                 *)
(* anomaly_list_size recorded flags in order.                              *)
(***************************************************************************)
C16_FlagsBoundedFifo ==
    /\ [](/\ Len(det.anomaly_list) <= det.anomaly_list_size
          /\ \A i \in 1..Len(det.anomaly_list) : det.anomaly_list[i] \in {0, 1})
    /\ [][(last'.op = "calculate_anomaly_ratio" /\ is_model_complete(det)) =>
             det'.anomaly_list =
                 IF AtCapacity(det)
                 THEN Append(Tail(det.anomaly_list), det.anomaly)
                 ELSE Append(det.anomaly_list, det.anomaly)]_vars

\* a list of 3 at capacity after at least one eviction, flags in order
C16_Witness ==
    /\ IsZscore(det)
    /\ last.op = "calculate_anomaly_ratio"
    /\ det.anomaly_list_size = 3
    /\ det.anomaly_list = <<1, 0, 0>>
    /\ det.anomaly_ratio = Rat(333, 1000)

(***************************************************************************)
(* C17.  calculate_anomaly_ratio called while the model is not complete    *)
(* changes no field of the detector, in both classes.                      *)
(***************************************************************************)
C17_RecordNoOpWhileFilling ==
    [][(last'.op = "calculate_anomaly_ratio" /\ ~is_model_complete(det)) => det' = det]_vars

\* a record was attempted on a window holding 2 of 3 values
C17_Witness ==
    /\ IsStdDev(det)
    /\ last.op = "calculate_anomaly_ratio"
    /\ det.model_size = 3
    /\ Len(det.model_data) = 2
    /\ det.anomaly_list = <<>>
    /\ det.anomaly_ratio = RatInt(0)

(***************************************************************************)
(* C18.  A check_if_anomaly call whose computation fails (the sample       *)
(* standard deviation of a one-element window, model_size = 1) does not    *)
(* raise and leaves every field of the detector as it was before the       *)
(* call.  The mean is assigned before the standard deviation fails, so     *)
(* model_avg changes and this does not hold.                               *)
(***************************************************************************)
C18_FailedCheckChangesNothing ==
    [][(CheckStep /\ ThisCall.raised) => det' = det]_vars

(***************************************************************************)
(* C19.  Sigma-band symmetry: in every reachable state of                  *)
(* AnomalyDetection3StdDev in which the floor is not engaged, the initial  *)
(* state and the states after reset_algorithm included,                    *)
(* u_thresh - model_avg = model_avg - l_thresh.  (Stated for               *)
(* model_size > 1, where no check fails.)  reset_algorithm sets model_avg  *)
(* to 0 and leaves the bounds of the last evaluation, so this does not     *)
(* hold after a reset.                                                     *)
(***************************************************************************)
C19_SigmaBandSymmetric ==
    (IsStdDev(det) /\ det.model_size > 1 /\ ~FloorEngaged(det)) =>
        RealSub(det.u_thresh, Real(det.model_avg)) = RealSub(Real(det.model_avg), det.l_thresh)

(***************************************************************************)
(* C20.  reset_algorithm can be called in every reachable state and        *)
(* leaves the window and the flag list empty, anomaly_ratio, the anomaly   *)
(* flag, the mean and the standard deviation 0 (and z_score 0 for the      *)
(* z-score class), so is_model_complete() is false afterwards;             *)
(* model_size and anomaly_list_size are unchanged.                         *)
(***************************************************************************)
C20_ResetRestoresInitialFields ==
    /\ [](ENABLED ResetAlgorithm)
    /\ [][(last'.op = "reset_algorithm") =>
             /\ det'.model_data = <<>>
             /\ det'.anomaly_list = <<>>
             /\ det'.anomaly_ratio = RatInt(0)
             /\ det'.anomaly = 0
             /\ det'.model_avg = RatInt(0)
             /\ det'.model_std_dev = Real(RatInt(0))
             /\ (IsZscore(det) => det'.z_score = RatInt(0))
             /\ ~is_model_complete(det')
             /\ det'.cls = det.cls
             /\ det'.model_size = det.model_size
             /\ det'.anomaly_list_size = det.anomaly_list_size]_vars

\* a detector that had evaluated values (its bounds are set) was reset
C20_Witness ==
    /\ IsStdDev(det)
    /\ last.op = "reset_algorithm"
    /\ det.model_size = 2
    /\ det.anomaly_list_size = 1
    /\ det.u_thresh # Real(RatInt(0))
    /\ det.model_data = <<>>
    /\ det.anomaly_list = <<>>
    /\ det.model_avg = RatInt(0)

(***************************************************************************)
(* C21.  A check_if_anomaly call made while the model is still filling     *)
(* changes only the window: mean, standard deviation, bounds, z_score and  *)
(* the anomaly flag keep their values.  A call made with a complete model  *)
(* (model_size > 1) recomputes the mean and the standard deviation from    *)
(* the window as it was before the call, and the bounds or the z_score     *)
(* from those.                                                             *)
(***************************************************************************)
C21_DerivedValuesStaleWhileFilling ==
    [][CheckStep =>
          LET v == ThisCall.value
              w == det.model_data
          IN IF ~is_model_complete(det)
             THEN det' = [det EXCEPT !.model_data = Append(w, v)]
             ELSE det.model_size > 1 =>
                    IF IsStdDev(det)
                    THEN /\ det'.model_avg = mean(w)
                         /\ det'.model_std_dev = stdev(w)
                         /\ \/ /\ det'.u_thresh = RealAddRat(RealScale(3, stdev(w)), mean(w))
                               /\ det'.l_thresh = RealAddRat(RealScale(-3, stdev(w)), mean(w))
                            \/ /\ det'.u_thresh =
                                      Real(RatAdd(mean(w), RatInt(det.thresh_std_dev_limit)))
                               /\ det'.l_thresh =
                                      Real(RatSub(mean(w), RatInt(det.thresh_std_dev_limit)))
                    ELSE /\ det'.model_avg = Round3(RatAbs(mean(w)))
                         /\ det'.model_std_dev \in {stdev(w), Real(Rat(1, 1000))}
                         /\ det'.z_score =
                                RoundQuot3(RatSub(RatInt(IAbs(v)), det'.model_avg),
                                           det'.model_std_dev)]_vars

\* after a reset the first value went into the window and the bounds are
\* still those of the evaluation before the reset
C21_Witness ==
    /\ IsStdDev(det)
    /\ last.op = "check_if_anomaly"
    /\ det.model_size = 2
    /\ Len(det.model_data) = 1
    /\ det.u_thresh = Real(RatInt(10))
    /\ det.model_avg = RatInt(0)
    /\ det.anomaly = 0

(***************************************************************************)
(* The handler of the electrical script                                    *)
(***************************************************************************)
\* a step of the handler, and the message it handles
HandlerStep == handled'.count = handled.count + 1

Valid(m) == m.decodable /\ m.device_data

NotRunning(m) == Valid(m) /\ m.DeviceState # "Running"

AllPhasesBuffered(ea) ==
    /\ Len(ea.el_current_ph1_samples) > 0
    /\ Len(ea.el_current_ph2_samples) > 0
    /\ Len(ea.el_current_ph3_samples) > 0

BufferEmpty(ea) ==
    /\ ea.el_current_ph1_samples = <<>>
    /\ ea.el_current_ph2_samples = <<>>
    /\ ea.el_current_ph3_samples = <<>>

PhaseSamples(ea) ==
    <<ea.el_current_ph1_samples, ea.el_current_ph2_samples, ea.el_current_ph3_samples>>

CountCalls(calls, name, method) ==
    Cardinality({k \in 1..Len(calls) : calls[k].detector = name /\ calls[k].method = method})

\* a detector after its threshold was assigned, value was checked and the
\* decision was recorded
Evaluated(d, z_threshold, value) ==
    Zscore_calculate_anomaly_ratio(
        Zscore_check_if_anomaly(Zscore_set_z_score_thresh(d, RatInt(z_threshold)), value))

\* C22: a valid message that is not Running and has no synchronization
\* pulse, arriving with samples buffered for all three phases, evaluates
\* and records each integral detector exactly once with the sum of the
\* phase's samples, writes at most one record and leaves the buffer empty;
\* a message that is not Running and arrives with an empty buffer calls no
\* detector and writes nothing.
C22_EvaluationCycleOnce ==
    [][HandlerStep =>
          LET m == handled'.message
          IN /\ (NotRunning(m) /\ m.SynchPulse = FALSE /\ AllPhasesBuffered(electrical_analytics)) =>
                   /\ \A i \in 1..3 :
                         /\ CountCalls(handled'.calls, IntegrDetectors[i], "check_if_anomaly") = 1
                         /\ CountCalls(handled'.calls, IntegrDetectors[i], "calculate_anomaly_ratio") = 1
                         /\ analytics'[IntegrDetectors[i]] =
                               Evaluated(analytics[IntegrDetectors[i]], env.Z_SCORE_THRESHOLD,
                                         Sum(PhaseSamples(electrical_analytics)[i]))
                   /\ Len(influx') \in {Len(influx), Len(influx) + 1}
                   /\ SubSeq(influx', 1, Len(influx)) = influx
                   /\ BufferEmpty(electrical_analytics')
             /\ (NotRunning(m) /\ BufferEmpty(electrical_analytics)) =>
                   /\ handled'.calls = <<>>
                   /\ analytics' = analytics
                   /\ influx' = influx]_vars

\* The third message: after samples arrived and a cycle wrote its record, a
\* further message that is not Running found the buffer empty and did
\* nothing.
C22_Witness ==
    /\ handled.count = 3
    /\ NotRunning(handled.message) /\ handled.message.SynchPulse = FALSE
    /\ handled.buffered = <<0, 0, 0>>
    /\ handled.calls = <<>>
    /\ Len(influx) = 1

\* C23: every valid Running message appends its three phase samples to the
\* buffer, with or without synchronization pulse, and changes no detector
\* and writes nothing.
C23_RunningAccumulates ==
    [][HandlerStep =>
          LET m == handled'.message
          IN (Valid(m) /\ m.DeviceState = "Running") =>
                /\ electrical_analytics' =
                      [electrical_analytics EXCEPT
                          !.el_current_ph1_samples = @ \o m.CurrentL1,
                          !.el_current_ph2_samples = @ \o m.CurrentL2,
                          !.el_current_ph3_samples = @ \o m.CurrentL3]
                /\ analytics' = analytics
                /\ influx' = influx
                /\ handled'.calls = <<>>
                /\ ~handled'.write_attempted]_vars

\* A Running message with the synchronization pulse set was appended to
\* samples already buffered.
C23_Witness ==
    /\ handled.message.DeviceState = "Running"
    /\ handled.message.SynchPulse = TRUE
    /\ handled.buffered = <<3, 3, 3>>
    /\ electrical_analytics.el_current_ph3_samples = <<0, 0, 0, 4>>

\* C24: a valid message that is not Running and carries the synchronization
\* pulse empties the three phase buffers, whatever they hold, calls no
\* detector and writes nothing.
C24_PulseAborts ==
    [][HandlerStep =>
          LET m == handled'.message
          IN (NotRunning(m) /\ m.SynchPulse = TRUE) =>
                /\ electrical_analytics' =
                      [electrical_analytics EXCEPT !.el_current_ph1_samples = <<>>,
                                                   !.el_current_ph2_samples = <<>>,
                                                   !.el_current_ph3_samples = <<>>]
                /\ analytics' = analytics
                /\ influx' = influx
                /\ handled'.calls = <<>>
                /\ ~handled'.write_attempted]_vars

\* The pulse arrived with samples buffered for the three phases.
C24_Witness ==
    /\ NotRunning(handled.message) /\ handled.message.SynchPulse = TRUE
    /\ handled.buffered = <<3, 3, 3>>
    /\ BufferEmpty(electrical_analytics)
    /\ influx = <<>>

\* C25: an evaluation cycle whose record does not reach the store logs the
\* failure, does not raise and still empties the buffer; and no message
\* that arrives with an empty buffer attempts a write, so the cycle is not
\* written by a later message.
C25_FailedWriteNotRetried ==
    [][HandlerStep =>
          /\ (handled'.calls # <<>> /\ Len(influx') = Len(influx)) =>
                /\ handled'.logged
                /\ ~handled'.raised
                /\ BufferEmpty(electrical_analytics')
          /\ BufferEmpty(electrical_analytics) =>
                /\ ~handled'.write_attempted
                /\ influx' = influx]_vars

\* The write of a cycle failed, and the message after it found the buffer
\* empty and wrote nothing.
C25_Witness ==
    /\ handled.count = 3
    /\ NotRunning(handled.message) /\ handled.message.SynchPulse = FALSE /\ handled.message.tags
    /\ handled.buffered = <<0, 0, 0>>
    /\ \A n \in DetectorNames : Len(handled.fed[n]) <= 1
    /\ Len(handled.fed["el_current_integr_ph1_analytics"]) = 1
    /\ influx = <<>>
    /\ ~handled.write_attempted

\* a decodable record that lacks a field the handler reads
Malformed(m) == m.decodable /\ (~m.device_data \/ ~m.tags)

\* C26: a message that lacks an expected field (a device field, LineName,
\* MachineName or TimeStamp) changes no detector and no sample buffer and
\* writes nothing.
C26_MalformedSkipped ==
    [][(HandlerStep /\ Malformed(handled'.message)) =>
          /\ analytics' = analytics
          /\ electrical_analytics' = electrical_analytics
          /\ influx' = influx]_vars

\* C27: the handler never raises, whatever the payload.
C27_HandlerNeverRaises == ~handled.raised

\* one detector after the values were given to it one evaluation after
\* the other
RECURSIVE ReplayFrom(_, _, _)
ReplayFrom(d, z_threshold, values) ==
    IF values = <<>> THEN d
    ELSE ReplayFrom(Evaluated(d, z_threshold, Head(values)), z_threshold, Tail(values))

C29_DetectorsIndependent ==
    /\ [](handled # <<>> =>
            \A n \in DetectorNames :
                analytics[n] =
                    ReplayFrom(AnomalyDetectionZscore_init(env.MODEL_WINDOW_SIZE,
                                                           env.ANOMALY_LIST_SIZE),
                               env.Z_SCORE_THRESHOLD, handled.fed[n]))
    /\ [][HandlerStep =>
             /\ \A n \in DetectorNames :
                   analytics'[n] = ReplayFrom(analytics[n], env.Z_SCORE_THRESHOLD,
                                              ValuesFed(handled'.calls, n))
             /\ \A i \in 1..3 :
                   Len(find_peaks(PhaseSamples(electrical_analytics)[i],
                                  env.CURRENT_PEAK_HEIGHT)) < env.CURRENT_PEAK_NUMBER
                   => analytics'[InrushDetectors[i]] = analytics[InrushDetectors[i]]]_vars

\* A cycle in which phase 1 had the peak and phase 3 had none: the inrush
\* detector of phase 1 advanced, that of phase 3 is as constructed.
C29_Witness ==
    /\ handled.calls # <<>>
    /\ handled.buffered = <<3, 3, 3>>
    /\ analytics["el_inrush_current_ph1_analytics"].model_data = <<2>>
    /\ analytics["el_inrush_current_ph3_analytics"] =
          AnomalyDetectionZscore_init(env.MODEL_WINDOW_SIZE, env.ANOMALY_LIST_SIZE)
    /\ analytics["el_current_integr_ph3_analytics"].model_data = <<0>>

\* C30: for totals a, b, c whose mean is not zero the asymmetry is
\* 100 * (|a - mean3| + |b - mean3| + |c - mean3|) / mean3, which is
\* 100 * (|3a - s| + |3b - s| + |3c - s|) / s for s = a + b + c; the totals
\* (100, 100, 103) have mean 101 and asymmetry 400/101.
C30_AssymetryFormula ==
    call.op = "calculate_el_current_assymetry" =>
        LET a == call.arg[1]
            b == call.arg[2]
            c == call.arg[3]
            s == a + b + c
        IN /\ s # 0 =>
                 call.result = [kind |-> "number",
                                value |-> Rat(100 * (IAbs(3 * a - s) + IAbs(3 * b - s) + IAbs(3 * c - s)), s)]
           /\ call.arg = <<100, 100, 103>> =>
                 /\ Rat(s, 3) = RatInt(101)
                 /\ call.result.value = Rat(100 * 4, 101)

\* The function was applied to the totals (100, 100, 103).
C30_Witness ==
    /\ call.op = "calculate_el_current_assymetry"
    /\ call.arg = <<100, 100, 103>>
    /\ call.result = [kind |-> "number", value |-> [num |-> 400, den |-> 101]]

\* C31: for three totals whose mean is zero the asymmetry calculation
\* yields an explicit error, not a number and not nan or inf.
C31_ZeroMeanIsError ==
    (/\ call.op = "calculate_el_current_assymetry"
     /\ call.arg[1] + call.arg[2] + call.arg[3] = 0)
    => call.result.kind = "error"

\* C32: in every evaluation cycle each integral detector is given, and the
\* record written carries, the sum of exactly the samples of the phase
\* that Running messages delivered since the buffer was last cleared (by a
\* completed cycle, by a pulse abort, or at start-up); the buffer holds
\* exactly those samples, so no sample is counted in two cycles.
C32_IntegralOfCurrentCycle ==
    /\ [](PhaseSamples(electrical_analytics) = handled.pending)
    /\ [][(HandlerStep /\ handled'.calls # <<>>) =>
             \A i \in 1..3 :
                /\ ValuesFed(handled'.calls, IntegrDetectors[i]) = <<Sum(handled.pending[i])>>
                /\ Len(influx') > Len(influx) =>
                      influx'[Len(influx')].el_current_integral[i] = Sum(handled.pending[i])]_vars

\* Two cycles were written: the second carries the sums of the samples
\* delivered after the first, and nothing of the first.
C32_Witness ==
    /\ handled.calls # <<>>
    /\ Len(influx) = 2
    /\ influx[1].el_current_integral = <<2, 1, 0>>
    /\ influx[2].el_current_integral = <<1, 1, 4>>
    /\ handled.fed["el_current_integr_ph3_analytics"] = <<0, 4>>

\* C35: for each phase that has at least peak_number peaks, the inrush
\* value calculate_inrush_current_analytics returns for the phase is the
\* value its detector was given, whatever the other phases have.
C35_ReturnedInrushIsFed ==
    call.op = "calculate_inrush_current_analytics" =>
        \A i \in 1..3 :
            PeakFound(find_peaks(call.arg.samples[i], call.arg.height_of_peak),
                      call.arg.peak_number)
            => /\ call.result.selected[i].kind = "number"
               /\ call.result.inrush[i] = call.result.selected[i]

\* the conditions under which reading a setting ends the process, and
\* what it returns otherwise
TypeAllowed(req_type) == req_type \in {"str", "int", "float"}

Absent(a) == a.env_val = PyNone

NotConvertible(a) ==
    /\ ~Absent(a)
    /\ \/ a.req_type = "int" /\ a.env_val.text \notin {"0", "5"}
       \/ a.req_type = "float" /\ a.env_val.text \notin {"0", "5", "2.5"}

ReadCall == call.op \in {"get_env_var", "get_params"}

\* C33 as stated: reading a setting ends the process if and only if the
\* requested type is not one of str, int, float, or the variable is absent
\* and no default is given, or the value cannot be converted.
C33_ExitIffTypeNotAllowed ==
    ReadCall =>
        (call.result.outcome = "SystemExit"
         <=> \/ ~TypeAllowed(call.arg.req_type)
             \/ Absent(call.arg) /\ call.arg.default = PyNone
             \/ NotConvertible(call.arg))

\* C33, amended: reading a setting ends the process if and only if a type
\* is requested that is not one of str, int, float, or the variable is
\* absent and no default is given, or the value cannot be converted to the
\* requested type; otherwise the default is returned for an absent
\* variable and, for a present one, the value as an int or float of the
\* requested type, or the string itself for str and for no requested type.
\* The detector is constructed only after every setting was read without
\* exit, from values that are the converted variable or the default.
C33_ExitIffRequestedTypeNotAllowed ==
    /\ ReadCall =>
          LET a == call.arg
              exits == \/ a.req_type # "None" /\ ~TypeAllowed(a.req_type)
                       \/ Absent(a) /\ a.default = PyNone
                       \/ NotConvertible(a)
          IN /\ call.result.outcome = "SystemExit" <=> exits
             /\ (~exits /\ Absent(a)) => call.result = Return(a.default)
             /\ (~exits /\ ~Absent(a)) =>
                   /\ call.result.outcome = "return"
                   /\ a.req_type \in {"str", "None"} => call.result.value = a.env_val
                   /\ a.req_type \in {"int", "float"} =>
                         /\ call.result.value.type = a.req_type
                         /\ a.env_val.text = "5" => call.result.value.num = RatInt(5)
                         /\ a.env_val.text = "2.5" => call.result.value.num = Rat(5, 2)
                         /\ a.env_val.text = "0" => call.result.value.num = RatInt(0)
    /\ (call.op = "startup" /\ call.constructed) =>
          /\ ~call.exited
          /\ \A i \in 1..Len(Settings) :
                /\ call.values[Settings[i].name] # PyNone
                /\ call.values[Settings[i].name].type = Settings[i].req_type
          /\ call.detector.model_size.type = "int"
          /\ call.detector.anomaly_list_size.type = "int"

\* The start-up read every setting and constructed the detector:
\* MODEL_WINDOW_SIZE converted from "5", Z_SCORE_THRESHOLD from "2.5",
\* ANOMALY_LIST_SIZE absent and taken from its default.
C33_Witness ==
    /\ call.op = "startup" /\ call.constructed
    /\ call.environ["ANOMALY_LIST_SIZE"] = PyNone
    /\ call.values["Z_SCORE_THRESHOLD"] = PyFloat(Rat(5, 2))
    /\ call.detector = [model_size |-> PyInt(5), anomaly_list_size |-> PyInt(100)]

(***************************************************************************)
(* C34 as stated.  With check_if_anomaly and calculate_anomaly_ratio       *)
(* called in alternation, every entry of the flag list is the outcome of a *)
(* check made on an already complete model: the list is the most recent    *)
(* decisions, and after the call that completes the model it is still      *)
(* empty.  The record that follows the completing call finds the model     *)
(* complete and appends the flag no check has set, so this does not hold.  *)
(***************************************************************************)
C34_FlagsAreDecisions ==
    LET dec == Decisions(fed)
        M == det.anomaly_list_size
    IN det.anomaly_list = LastN(dec, IF Len(dec) < M THEN Len(dec) ELSE M)

(***************************************************************************)
(* C34 amended.  With check_if_anomaly and calculate_anomaly_ratio called  *)
(* in alternation, N = model_size and M = anomaly_list_size: the record    *)
(* after the N-th check, the one that completes the model, appends one 0   *)
(* that is no decision; every other entry of the flag list is the outcome  *)
(* of a check made on an already complete model, in order; anomaly_ratio   *)
(* is first recomputed by the record of the M-th real decision, which      *)
(* evicts that 0, so from then on the list holds real decisions only.      *)
(***************************************************************************)
C34_FlagsAreDecisionsAfterOneWarmUpFlag ==
    LET dec == Decisions(fed)
        M == det.anomaly_list_size
        recorded == IF Len(fed) >= det.model_size THEN <<0>> \o dec ELSE <<>>
    IN /\ det.anomaly_list =
              LastN(recorded, IF Len(recorded) < M THEN Len(recorded) ELSE M)
       /\ Len(dec) < M => det.anomaly_ratio = RatInt(0)
       /\ Len(dec) >= M =>
              /\ det.anomaly_list = LastN(dec, M)
              /\ det.anomaly_ratio = Round3(Rat(Sum(det.anomaly_list), M))

\* model of 2, list of 2, four evaluations of which the last two decided
\* "anomalous": the 0 of the completing call has just been evicted by the
\* first recomputation, which gives ratio 1
C34_Witness ==
    /\ last.op = "evaluate"
    /\ det.model_size = 2
    /\ det.anomaly_list_size = 2
    /\ Len(fed) = 4
    /\ Decisions(fed) = <<1, 1>>
    /\ det.anomaly_list = <<1, 1>>
    /\ det.anomaly_ratio = RatInt(1)

(***************************************************************************)
(* C36.  Completeness is monotonic between resets, both classes: no call   *)
(* other than reset_algorithm shortens the window, and the window never    *)
(* exceeds model_size, so a model that is complete stays complete through  *)
(* every later check_if_anomaly, calculate_anomaly_ratio and threshold     *)
(* assignment, whatever the values, until reset_algorithm is called.       *)
(***************************************************************************)
C36_CompletenessMonotonic ==
    /\ [](Len(det.model_data) <= det.model_size)
    /\ [][(last'.op # "reset_algorithm") =>
             /\ Len(det'.model_data) >= Len(det.model_data)
             /\ is_model_complete(det) => is_model_complete(det')]_vars

\* a model of 2 that was complete for two checks, one accepted and one
\* flagged, and a record after them, with no reset in between
C36_Witness ==
    /\ is_model_complete(det)
    /\ det.model_size = 2
    /\ last.op = "calculate_anomaly_ratio"
    /\ Len(fed) = 4
    /\ fed[3].complete /\ fed[3].anomaly = 0 /\ ~fed[3].raised
    /\ fed[4].complete /\ fed[4].anomaly = 1

\* a sigma-band detector whose complete window holds one value only
Frozen(d) ==
    /\ IsStdDev(d)
    /\ is_model_complete(d)
    /\ \A i \in 1..Len(d.model_data) : d.model_data[i] = d.model_data[1]

(***************************************************************************)
(* C38 as stated.  Frozen model of the sigma-band class: a                 *)
(* check_if_anomaly call with limit 0 made on a complete window that holds *)
(* model_size copies of one value v leaves the window as it is and, when   *)
(* the value checked differs from v, sets the anomaly flag.  With          *)
(* model_size 1 the standard deviation of the window cannot be computed    *)
(* and the call decides nothing, so this does not hold.                    *)
(***************************************************************************)
C38_FrozenModel ==
    [][(Frozen(det) /\ last'.op = "check_if_anomaly" /\ last'.arg = 0) =>
          /\ det'.model_data = det.model_data
          /\ fed'[Len(fed')].value # det.model_data[1] => det'.anomaly = 1]_vars

(***************************************************************************)
(* C38 amended.  A check_if_anomaly call with limit 0 made on a complete   *)
(* window that holds model_size copies of one value v leaves the window as *)
(* it is, so the window stays model_size copies of v for every later input *)
(* sequence checked with limit 0, until a reset.  With model_size of 2 or  *)
(* more the call flags every value different from v as anomalous and v     *)
(* itself as not anomalous; with model_size 1 the call fails in stdev, is  *)
(* logged, and leaves the anomaly flag as it was.                          *)
(***************************************************************************)
C38_FrozenModelDecidesFromTwo ==
    [][(Frozen(det) /\ last'.op = "check_if_anomaly" /\ last'.arg = 0) =>
          /\ det'.model_data = det.model_data
          /\ IF det.model_size > 1
             THEN det'.anomaly = IF fed'[Len(fed')].value # det.model_data[1] THEN 1 ELSE 0
             ELSE det'.anomaly = det.anomaly /\ fed'[Len(fed')].raised]_vars

\* a window of two 10s, checked with 20 and then with 11, both flagged and
\* neither taken into the window
C38_Witness ==
    /\ Frozen(det)
    /\ det.model_data = <<10, 10>>
    /\ last = [op |-> "check_if_anomaly", arg |-> 0]
    /\ Len(fed) = 4
    /\ fed[3].value = 20 /\ fed[3].anomaly = 1
    /\ fed[4].value = 11 /\ fed[4].anomaly = 1
    /\ det.anomaly = 1

\* a check made since the reset found the model complete and did not fail
AfterDecisionSinceReset ==
    \E i \in 1..Len(fed) : fed[i].complete /\ ~fed[i].raised

(***************************************************************************)
(* C37.  Reset equivalence, both classes: after reset_algorithm, whatever  *)
(* was fed before it, every sequence of values fed with                    *)
(* calculate_anomaly_ratio after each leaves the detector with the same    *)
(* anomaly flag, anomaly ratio, window and flag list as the same sequence  *)
(* leaves a freshly constructed detector of the same configuration; the    *)
(* bounds, the mean, the standard deviation and the z-score, which may     *)
(* differ from the fresh detector's while the model fills, are equal again *)
(* once a decision is made.                                                *)
(***************************************************************************)
C37_ResetEquivalence ==
    (call.op = "reset_algorithm") =>
        /\ det.anomaly = call.fresh.anomaly
        /\ det.anomaly_ratio = call.fresh.anomaly_ratio
        /\ det.model_data = call.fresh.model_data
        /\ det.anomaly_list = call.fresh.anomaly_list
        /\ AfterDecisionSinceReset => det = call.fresh

\* a sigma-band detector reset with its model complete, a flag raised and
\* bounds computed, then fed four values: while it fills its bounds are
\* the old ones, and the flags, the window and the ratio are those of the
\* fresh detector
C37_Witness ==
    /\ call.op = "reset_algorithm"
    /\ IsStdDev(det)
    /\ det.model_size = 2
    /\ det.anomaly_list_size = 2
    /\ is_model_complete(call.before)
    /\ call.before.anomaly = 1
    /\ call.before.u_thresh # Real(RatInt(0))
    /\ Len(fed) = 4
    /\ fed[3].anomaly = 1
    /\ fed[4].anomaly = 0
    /\ det.anomaly_list = <<1, 0>>
    /\ det.anomaly_ratio = Rat(1, 2)
    /\ det.anomaly_ratio = call.fresh.anomaly_ratio

====
